---- MODULE Spec2Model ----
(***************************************************************************)
(* A model of wlcreator.py (Wine Launcher Creator 1.1.0): the shell        *)
(* quoting routine escape, the launch-command composer commandLine, the    *)
(* icon catalog parser iconImages, the icon selection of extractIcoFile    *)
(* and the two handlers that drive the external tools, populateIconList    *)
(* and createLauncher.                                                     *)
(*                                                                         *)
(* Representation of strings.  A Python str (or bytes) is a sequence of    *)
(* characters; each character is a TLA+ string.  A character that a TLA+   *)
(* string literal cannot hold safely is denoted by its name (DQ, BS, BT,   *)
(* TAB, NL below).  In the fixed texts of commandLine a run of characters  *)
(* none of which is tested by any code that reads the text (letters,       *)
(* digits, '-', '_', '/') is written as one element, e.g. "xrandr".        *)
(***************************************************************************)
EXTENDS Integers, Sequences, FiniteSets, TLC

VARIABLES
    text,               \* escape: the argument text
    allowSingleQuote,   \* escape: the argument allowSingleQuote
    escaped,            \* the results of the successive applications of escape
    executable,         \* MainWindow.executable: its path and pathValid
    prefix,             \* MainWindow.prefix.path
    appParams,          \* MainWindow.appParams.text
    resolutionFix,      \* the check box "Restore resolution"
    legacyFS,           \* the check box "Compiz Legacy Fullscreen Support"
    command,            \* what the last call of commandLine built
    lister,             \* what "icotool -l" does on the .ico file: exit status, stdout
    images,             \* the outcome of the last call of iconImages
    best,               \* the outcome of the last call of extractIcoFile
    iconPath,           \* MainWindow.iconPath: its path and pathValid
    application,        \* MainWindow.application: its path and pathValid
    name,               \* MainWindow.name: the text of the launcher's name
    temporary,          \* the files of the scratch directory self.temporary
    iconWidget,         \* MainWindow.iconWidget: its items and the selected one
    themeTree,          \* the files under ~/.local/share/icons/hicolor
    launchers,          \* the .desktop files written
    status,             \* the message of the status bar
    raised,             \* the exception the last handler let escape, or "none"
    runs,               \* the external tool runs of the last handler
    clears,             \* the calls of clearTemporary of the last handler: for each,
                        \* the number of tool runs the handler had made before it
    handler,            \* the last handler that ran: "none", "edited" (an edit that
                        \* called nothing further), "populateIconList",
                        \* "createLauncher", "debugLauncher" or "cleanup"
    shell               \* the last call of bash by checkDependencies: what the
                        \* process did and what bash gave its caller

escapeVars == <<text, allowSingleQuote, escaped>>

commandVars == <<executable, prefix, appParams, resolutionFix, legacyFS, command>>

icoVars == <<lister, images, best>>

guiVars == <<iconPath, application, name, temporary, iconWidget, themeTree, launchers,
             status, raised, runs, clears, handler>>

vars == <<text, allowSingleQuote, escaped,
          executable, prefix, appParams, resolutionFix, legacyFS, command,
          lister, images, best,
          iconPath, application, name, temporary, iconWidget, themeTree, launchers,
          status, raised, runs, clears, handler, shell>>

(***************************************************************************)
(* Characters.                                                             *)
(***************************************************************************)
SQ  == "'"
DQ  == "DQUOTE"
BS  == "BACKSLASH"
BT  == "BACKTICK"
TAB == "TAB"
NL  == "NEWLINE"
SP  == " "

\* A fold of the sequences of a sequence into one sequence.
RECURSIVE Flatten(_)
Flatten(ss) == IF ss = <<>> THEN <<>> ELSE Head(ss) \o Flatten(Tail(ss))

\* The sequences over S of length at most n.
RECURSIVE SeqsUpTo(_, _)
SeqsUpTo(S, n) ==
    IF n = 0 THEN {<<>>}
    ELSE LET shorter == SeqsUpTo(S, n - 1)
         IN  shorter \cup {Append(s, c) : s \in {x \in shorter : Len(x) = n - 1}, c \in S}

(***************************************************************************)
(* The part of the state a specification does not use stays as it is       *)
(* before any call: no text escaped, the fields of the window as           *)
(* MainWindow.__init__ leaves them, no .ico file listed.                   *)
(***************************************************************************)

\* lines 549-552: a message of the status bar, with the path it quotes if any
Status(message) == [message |-> message, path |-> <<>>]

\* lines 85-86: defaultWinePrefix(), the expansion of "~/.wine"
defaultWinePrefix == <<"/", "home", "/", "u", "/", ".wine">>

\* no call of commandLine has returned yet
NoCommand == [exe |-> <<>>, line |-> <<>>, built |-> FALSE]

\* iconImages or extractIcoFile has not been called yet
NotCalled == [raised |-> "not called"]

IcoIdle ==
    /\ lister = [exit |-> 0, out |-> <<>>]
    /\ images = NotCalled
    /\ best = NotCalled

EscapeIdle ==
    /\ text = <<>>
    /\ allowSingleQuote = FALSE
    /\ escaped = <<>>

\* the window after MainWindow.__init__ with no argument: every path empty,
\* the scratch directory made by mkdtemp (line 520) empty, the list empty
GuiIdle ==
    /\ iconPath = [path |-> <<>>, pathValid |-> TRUE]
    /\ application = [path |-> <<>>, pathValid |-> TRUE]
    /\ name = <<>>
    /\ temporary = {}
    /\ iconWidget = [items |-> <<>>, selected |-> 0]
    /\ themeTree = {}
    /\ launchers = {}
    /\ status = Status("Select an exe file.")
    /\ raised = "none"
    /\ runs = <<>>
    /\ clears = <<>>
    /\ handler = "none"

\* bash has not been called yet
ShellIdle == shell = [called |-> FALSE]

CommandIdle ==
    /\ executable = [path |-> <<>>, pathValid |-> TRUE]
    /\ prefix = defaultWinePrefix
    /\ appParams = <<>>
    /\ resolutionFix = FALSE
    /\ legacyFS = FALSE
    /\ command = NoCommand

(***************************************************************************)
(* escape(text, allowSingleQuote), wlcreator.py lines 88-103.              *)
(***************************************************************************)

\* line 92: the characters of the literal "'\t\n"
SQIllegalChars == {SQ, TAB, NL}

\* (mutant) the literal of line 94 without its last character
ReservedChars_NoEquals ==
    {DQ, BS, SP, ">", "<", "~", "|", "&", ";", "$", "*", "?", "#", "(", ")", BT}

\* line 94: the characters of the literal '"\\ ><~|&;$*?#()`='
ReservedChars ==
    {DQ, BS, SP, ">", "<", "~", "|", "&", ";", "$", "*", "?", "#", "(", ")", BT, "="}

\* (mutant) the test of line 92 with the single quote left out
hasSQIllegal_NoQuote(t) == \E i \in DOMAIN t : t[i] \in {TAB, NL}

\* lines 91-93: the flag hasSQIllegal after the scan
hasSQIllegal(t) == \E i \in DOMAIN t : t[i] \in SQIllegalChars

\* (mutant) line 95 never reached
hasReserved_Never(t) == FALSE

\* lines 91-95: the flag hasReserved after the scan (the elif of line 94 is
\* reached only by a character that failed the test of line 92)
hasReserved(t) ==
    \E i \in DOMAIN t : t[i] \notin SQIllegalChars /\ t[i] \in ReservedChars

\* line 101: the character class of the pattern '(["`$\\\\\t\n])'
SubPatternChars == {DQ, BT, "$", BS, TAB, NL}

\* (mutant) the pattern of line 101 without the backslash
reSub_NoBackslash(t) ==
    Flatten([i \in DOMAIN t |->
                IF t[i] \in SubPatternChars \ {BS} THEN <<BS, t[i]>> ELSE <<t[i]>>])

\* line 101: re.sub(pattern, r'\\\1', text): every match is replaced by a
\* backslash followed by the matched character
reSub(t) ==
    Flatten([i \in DOMAIN t |->
                IF t[i] \in SubPatternChars THEN <<BS, t[i]>> ELSE <<t[i]>>])

\* (mutant) line 101 without the translate call
translate_Missing(t) == t

\* line 101: .translate(str.maketrans({'\n': 'n', '\t': 't'}))
translate(t) ==
    [i \in DOMAIN t |-> IF t[i] = NL THEN "n" ELSE IF t[i] = TAB THEN "t" ELSE t[i]]

\* lines 88-103
escape(t, allow) ==
    IF allow /\ ~hasSQIllegal(t) /\ hasReserved(t)
    THEN <<SQ>> \o t \o <<SQ>>
    ELSE IF hasSQIllegal(t) \/ hasReserved(t)
         THEN <<DQ>> \o translate(reSub(t)) \o <<DQ>>
         ELSE t

(***************************************************************************)
(* bash(command), wlcreator.py lines 122-140, and checkDependencies, lines *)
(* 142-156.                                                                *)
(*                                                                         *)
(* What the process of a call does is a record: started tells that         *)
(* subprocess.Popen returned (it raises OSError when the shell cannot be   *)
(* forked or executed), read that communicate returned, out is the bytes   *)
(* of the combined output and exit is what poll returns.  A byte below     *)
(* 0x80 is denoted by its character; the other bytes are named.            *)
(***************************************************************************)

\* the bytes that are no ASCII character
HighBytes == {"0xc3", "0xa9", "0xff"}

\* line 134: the bytes are the UTF-8 encoding of a text: ASCII bytes, and the
\* two bytes of the letter e with an acute accent
RECURSIVE utf8Valid(_)
utf8Valid(b) ==
    \/ b = <<>>
    \/ b[1] \notin HighBytes /\ utf8Valid(Tail(b))
    \/ Len(b) >= 2 /\ b[1] = "0xc3" /\ b[2] = "0xa9" /\ utf8Valid(SubSeq(b, 3, Len(b)))

\* line 134: output.decode("utf-8") of valid bytes
RECURSIVE utf8Decode(_)
utf8Decode(b) ==
    IF b = <<>> THEN <<>>
    ELSE IF b[1] = "0xc3" THEN <<"e-acute">> \o utf8Decode(SubSeq(b, 3, Len(b)))
    ELSE <<b[1]>> \o utf8Decode(Tail(b))

\* lines 122-140: the bare except of line 136 sets code to 127 and nothing
\* else.  When Popen or communicate raised, output was never assigned and
\* line 138 raises UnboundLocalError; when decode raised, output is still the
\* bytes communicate returned, and bash returns them with 127.
bash(process) ==
    IF ~process.started \/ ~process.read
    THEN [raised |-> "UnboundLocalError"]
    ELSE IF ~utf8Valid(process.out)
    THEN [raised |-> "none", code |-> 127, type |-> "bytes", output |-> process.out]
    ELSE [raised |-> "none", code |-> process.exit, type |-> "str",
          output |-> utf8Decode(process.out)]

\* lines 142-156: checkDependencies() with what the process of
\* "wrestool --version" does: the exception of bash escapes; otherwise the
\* dialog "Missing dependencies" is shown and False returned iff code > 0
checkDependencies(process) ==
    LET called == bash(process)
    IN  [called |-> TRUE, process |-> process, bash |-> called,
         raised |-> called.raised,
         returned |-> IF called.raised # "none" THEN "nothing"
                      ELSE IF called.code > 0 THEN "False" ELSE "True"]

(***************************************************************************)
(* MainWindow.commandLine, wlcreator.py lines 600-626.                     *)
(***************************************************************************)

\* line 314: cfgDefaults['Wine'], the text of MainWindow.wine
wineText == <<"wine">>

\* str.rfind: the last index of c in p, 0 when there is none
LastIndexOf(p, c) ==
    LET S == {i \in DOMAIN p : p[i] = c}
    IN  IF S = {} THEN 0 ELSE CHOOSE i \in S : \A j \in S : j <= i

\* str.rstrip(c)
RECURSIVE rstrip(_, _)
rstrip(p, c) ==
    IF p # <<>> /\ p[Len(p)] = c THEN rstrip(SubSeq(p, 1, Len(p) - 1), c) ELSE p

\* os.path.dirname (posixpath), called at lines 601, 629 and 749: the head up
\* to the last slash, its trailing slashes stripped unless it is all slashes
dirname(p) ==
    LET head == SubSeq(p, 1, LastIndexOf(p, "/"))
    IN  IF head # <<>> /\ (\E k \in DOMAIN head : head[k] # "/")
        THEN rstrip(head, "/")
        ELSE head

\* line 605: the fragment of the check box "Restore resolution"
xrandrSuffix == <<SP, ";", SP, "xrandr", SP, "-s", SP, "0">>

\* lines 608 and 610: the gconftool command of the check box legacyFS, the
\* same text before and after the application
gconftoolCommand ==
    <<"gconftool", SP, "-s", SP,
      "/apps/compiz-1/plugins/workarounds/screen0/options/legacy_fullscreen",
      SP, "-s", SP, "false", SP, "-t", SP, "bool">>

\* lines 602-609: the local prefix
shPrefix == IF legacyFS THEN gconftoolCommand \o <<SP, ";", SP>> ELSE <<>>

\* lines 602-610: the local suffix
shSuffix ==
    (IF resolutionFix THEN xrandrSuffix ELSE <<>>)
        \o (IF legacyFS THEN <<SP, ";", SP>> \o gconftoolCommand ELSE <<>>)

\* (mutant) line 612 reading the prefix alone
needsSh_PrefixOnly == shPrefix # <<>>

\* line 612: needsSh = prefix or suffix, read as a truth value
needsSh == shPrefix # <<>> \/ shSuffix # <<>>

\* lines 601, 614-616: the executable path, made relative to its directory
relativeExe ==
    LET exe == executable.path
        exeDirectory == dirname(exe)
        n == Len(exeDirectory)
    IN  IF Len(exe) > n /\ SubSeq(exe, 1, n) = exeDirectory /\ exe[n + 1] = "/"
        THEN SubSeq(exe, n + 2, Len(exe))
        ELSE exe

\* line 617: the quoted executable token
exeToken == escape(relativeExe, needsSh)

\* lines 617-621: the local exe after line 621
applicationCommand ==
    LET withWine == wineText \o <<SP>> \o exeToken
        withEnv ==
            IF defaultWinePrefix # prefix
            THEN <<"env", SP>> \o escape(<<"WINEPREFIX", "=">> \o prefix, needsSh)
                     \o <<SP>> \o withWine
            ELSE withWine
    IN  IF appParams # <<>> THEN withEnv \o <<SP>> \o appParams ELSE withEnv

\* lines 600-626
commandLine ==
    IF needsSh
    THEN <<"sh", SP, "-c", SP>> \o escape(shPrefix \o applicationCommand \o shSuffix, FALSE)
    ELSE applicationCommand

(***************************************************************************)
(* The specification of commandLine: the fields it reads are drawn, the    *)
(* two check boxes start unchecked (lines 427 and 432) and are toggled by  *)
(* the user, and commandLine is called (by createLauncher, line 759, or by *)
(* debugLauncher, line 630).                                               *)
(***************************************************************************)
MaxPathLen == 4

\* the characters the executable path is drawn from: the separator, a
\* letter, a reserved character and the single quote
PathChars == {"/", "g", SP, SQ}

ExecutablePaths == SeqsUpTo(PathChars, MaxPathLen)

\* the Wine prefix paths: the default one and another
PrefixPaths == {defaultWinePrefix, <<"/", "home", "/", "u", "/", "my", SP, "bottle">>}

\* the application parameters: none, or one option
AppParamTexts == {<<>>, <<"-window">>}

CommandInit ==
    /\ executable \in [path : ExecutablePaths, pathValid : {TRUE}]
    /\ prefix \in PrefixPaths
    /\ appParams \in AppParamTexts
    /\ resolutionFix = FALSE
    /\ legacyFS = FALSE
    /\ command = NoCommand
    /\ EscapeIdle
    /\ IcoIdle
    /\ GuiIdle
    /\ ShellIdle

\* the user clicks the check box "Restore resolution"; the string an earlier
\* call of commandLine returned was consumed by its caller and is gone
ToggleResolutionFix ==
    /\ resolutionFix' = ~resolutionFix
    /\ command' = NoCommand
    /\ UNCHANGED <<executable, prefix, appParams, legacyFS, escapeVars, icoVars, guiVars, shell>>

\* the user clicks the check box "Compiz Legacy Fullscreen Support"
ToggleLegacyFS ==
    /\ legacyFS' = ~legacyFS
    /\ command' = NoCommand
    /\ UNCHANGED <<executable, prefix, appParams, resolutionFix, escapeVars, icoVars, guiVars, shell>>

\* a call of commandLine()
ComposeCommand ==
    /\ command' = [exe |-> exeToken, line |-> commandLine, built |-> TRUE]
    /\ UNCHANGED <<executable, prefix, appParams, resolutionFix, legacyFS, escapeVars, icoVars,
                   guiVars, shell>>

CommandNext == ToggleResolutionFix \/ ToggleLegacyFS \/ ComposeCommand

SpecCommandLine == CommandInit /\ [][CommandNext]_vars

(***************************************************************************)
(* iconImages, wlcreator.py lines 49-55, and the selection of              *)
(* MainWindow.extractIcoFile, lines 636-647.                               *)
(*                                                                         *)
(* The standard output of "icotool -l" is a sequence of items: a newline,  *)
(* an attribute "--key=value" or "--key" followed by a space, or a word    *)
(* without "--".  A value is a sequence of characters.  An image is the    *)
(* tuple <<index, width, height, bit depth>> of line 53.                   *)
(***************************************************************************)

\* line 37
ICON_SIZE == 64

\* lines 39-42, as positions of a TLA+ tuple (which counts from 1)
INDEX == 1
WIDTH == 2
HEIGHT == 3
BIT_DEPTH == 4

Newline == [kind |-> "newline", key |-> "", value |-> <<>>]
Attr(k, v) == [kind |-> "attr", key |-> k, value |-> v]
Word(w) == [kind |-> "word", key |-> w, value |-> <<>>]

DigitChars == <<"0", "1", "2", "3", "4", "5", "6", "7", "8", "9">>

\* the decimal digits of a natural number, as icotool prints it
RECURSIVE ToDigits(_)
ToDigits(n) ==
    IF n < 10 THEN <<DigitChars[n + 1]>>
    ELSE Append(ToDigits(n \div 10), DigitChars[(n % 10) + 1])

IsDigit(c) == \E d \in DOMAIN DigitChars : DigitChars[d] = c
DigitValue(c) == (CHOOSE d \in DOMAIN DigitChars : DigitChars[d] = c) - 1

\* line 53: int(value) raises ValueError unless the value is a number
IsInt(v) == v # <<>> /\ \A i \in DOMAIN v : IsDigit(v[i])

\* line 53: int(value)
RECURSIVE ParseInt(_)
ParseInt(v) ==
    IF v = <<>> THEN 0
    ELSE 10 * ParseInt(SubSeq(v, 1, Len(v) - 1)) + DigitValue(v[Len(v)])

\* (mutant) every trailing newline stripped, as bytes.rstrip would
stripTrailingNewline_All(out) == rstrip(out, Newline)

\* lines 51-52: one trailing newline is stripped
stripTrailingNewline(out) ==
    IF out # <<>> /\ out[Len(out)] = Newline THEN SubSeq(out, 1, Len(out) - 1) ELSE out

\* line 55: bytes.split(b"\n"): one line more than there are newlines
RECURSIVE splitLines(_)
splitLines(out) ==
    LET nls == {i \in DOMAIN out : out[i] = Newline}
    IN  IF nls = {} THEN <<out>>
        ELSE LET i == CHOOSE k \in nls : \A j \in nls : k <= j
             IN  <<SubSeq(out, 1, i - 1)>> \o splitLines(SubSeq(out, i + 1, Len(out)))

\* line 55: re.findall(b"--([^ =]*)(?:=([^ ]*))?", line): the (key, value)
\* pairs of the attributes of the line, in order
findall(line) == SelectSeq(line, LAMBDA item : item.kind = "attr")

\* line 55: dict(pairs) has the key
dictHas(pairs, k) == \E i \in DOMAIN pairs : pairs[i].key = k

\* line 55: dict(pairs)[k]: the value of the last pair with the key
dictGet(pairs, k) ==
    pairs[CHOOSE i \in DOMAIN pairs :
             pairs[i].key = k /\ \A j \in DOMAIN pairs : pairs[j].key = k => j <= i].value

\* line 53: the keys of an image, in the order of the tuple
imageKeys == <<"index", "width", "height", "bit-depth">>

\* line 53: the exception the tuple of one line raises, "none" if it is
\* built: that of the first key, in the order of the tuple, which the line
\* lacks (KeyError) or gives no number (ValueError)
lineError(line) ==
    LET d == findall(line)
        failing == {k \in DOMAIN imageKeys :
                       ~dictHas(d, imageKeys[k]) \/ ~IsInt(dictGet(d, imageKeys[k]))}
        first == CHOOSE k \in failing : \A j \in failing : k <= j
    IN  IF failing = {} THEN "none"
        ELSE IF ~dictHas(d, imageKeys[first]) THEN "KeyError"
        ELSE "ValueError"

\* line 53: the tuple of one line
lineImage(line) == [k \in DOMAIN imageKeys |-> ParseInt(dictGet(findall(line), imageKeys[k]))]

\* lines 49-55: iconImages on what the lister did; check_output raises
\* CalledProcessError on a non-zero exit status (line 50)
iconImages(run) ==
    IF run.exit # 0 THEN [raised |-> "CalledProcessError", images |-> <<>>]
    ELSE LET lines == splitLines(stripTrailingNewline(run.out))
             bad == {i \in DOMAIN lines : lineError(lines[i]) # "none"}
         IN  IF bad # {}
             THEN [raised |-> lineError(lines[CHOOSE i \in bad : \A j \in bad : i <= j]),
                   images |-> <<>>]
             ELSE [raised |-> "none", images |-> [i \in DOMAIN lines |-> lineImage(lines[i])]]

\* line 641: abs((width * height) ** 0.5 - ICON_SIZE) of a is less than that
\* of b.  With A and B the two areas and T = ICON_SIZE, |sqrt A - T| < |sqrt B - T|
\* is decided in integers: on one side of T*T by the areas, across it by
\* comparing sqrt A + sqrt B with 2T, squared twice.
scoreLess(a, b) ==
    LET A == a[WIDTH] * a[HEIGHT]
        B == b[WIDTH] * b[HEIGHT]
        TT == ICON_SIZE * ICON_SIZE
        L == 4 * TT - A - B
    IN  IF A >= TT /\ B >= TT THEN A < B
        ELSE IF A <= TT /\ B <= TT THEN A > B
        ELSE IF A < TT THEN L < 0 \/ L * L < 4 * A * B
        ELSE L > 0 /\ 4 * A * B < L * L

\* line 641: min(images, key = score): the first image no image scores below
minByScore(imgs) ==
    LET least == {i \in DOMAIN imgs : \A j \in DOMAIN imgs : ~scoreLess(imgs[j], imgs[i])}
    IN  imgs[CHOOSE i \in least : \A j \in least : i <= j]

\* (mutant) lines 645-646 without the key: the first image of the best size
maxByBitDepth_First(imgs) == imgs[1]

\* lines 645-646: max(images, key = bit depth): the first image of greatest
\* bit depth
maxByBitDepth(imgs) ==
    LET most == {i \in DOMAIN imgs :
                    \A j \in DOMAIN imgs : imgs[j][BIT_DEPTH] <= imgs[i][BIT_DEPTH]}
    IN  imgs[CHOOSE i \in most : \A j \in most : i <= j]

\* lines 641-646: the image extractIcoFile hands to iconExtract
selectBest(imgs) ==
    LET bestSize == minByScore(imgs)
        sameSize == SelectSeq(imgs, LAMBDA image :
                        /\ image[WIDTH] = bestSize[WIDTH]
                        /\ image[HEIGHT] = bestSize[HEIGHT])
    IN  maxByBitDepth(sameSize)

\* lines 636-646: extractIcoFile up to the call of iconExtract: its local
\* images and the image it hands to iconExtract; the exception of iconImages
\* passes through
extractIcoFile(run) ==
    LET listed == iconImages(run)
    IN  IF listed.raised # "none"
        THEN [raised |-> listed.raised, images |-> <<>>, image |-> <<>>]
        ELSE [raised |-> "none", images |-> listed.images,
              image |-> selectBest(listed.images)]

\* what "icotool -l" prints for one image of an .ico file
icotoolLine(image) ==
    <<Attr("icon", <<>>),
      Attr("index", ToDigits(image[INDEX])),
      Attr("width", ToDigits(image[WIDTH])),
      Attr("height", ToDigits(image[HEIGHT])),
      Attr("bit-depth", ToDigits(image[BIT_DEPTH])),
      Attr("palette-size", <<"0">>),
      Newline>>

\* what "icotool -l" prints for an .ico file that holds the images
icotoolList(imgs) == Flatten([i \in DOMAIN imgs |-> icotoolLine(imgs[i])])

(***************************************************************************)
(* Files.  A directory is a set of files, each a name and its data.  The   *)
(* data of an .ico file is what icotool makes of it: whether it can be     *)
(* listed, the images it holds and the indexes icotool fails to extract.   *)
(* The data of a .png file is the image it was extracted from.             *)
(***************************************************************************)

DotIco == <<".", "i", "c", "o">>
DotPng == <<".", "p", "n", "g">>

LowerCase == <<"a", "b", "c", "d", "e", "f", "g", "h", "i", "l", "n", "o", "p", "x", "z">>
UpperCase == <<"A", "B", "C", "D", "E", "F", "G", "H", "I", "L", "N", "O", "P", "X", "Z">>

\* str.upper on one character
upperChar(c) ==
    IF \E i \in DOMAIN LowerCase : LowerCase[i] = c
    THEN UpperCase[CHOOSE i \in DOMAIN LowerCase : LowerCase[i] = c]
    ELSE c

\* (mutant) line 47 without the call of upper
getSuffix_CaseSensitive(file) ==
    SubSeq(file, IF Len(file) > 4 THEN Len(file) - 3 ELSE 1, Len(file))

\* lines 44-47: file[-4:].upper()
getSuffix(file) ==
    LET last == SubSeq(file, IF Len(file) > 4 THEN Len(file) - 3 ELSE 1, Len(file))
    IN  [i \in DOMAIN last |-> upperChar(last[i])]

\* lines 82-83
multiIconFile(suffix) ==
    suffix \in {<<".", "E", "X", "E">>, <<".", "D", "L", "L">>, <<".", "I", "C", "L">>}

\* os.path.basename: what follows the last slash
basename(p) == SubSeq(p, LastIndexOf(p, "/") + 1, Len(p))

\* line 520: the directory tempfile.mkdtemp made
temporaryDir == <<"/", "tmp", "/", "wlcreator-0">>

\* os.path.join(self.temporary, name)
inTemporary(fileName) == temporaryDir \o <<"/">> \o fileName

IcoData(imgs, bad) == [kind |-> "ico", listable |-> TRUE, images |-> imgs, damaged |-> bad]
UnlistableIco == [kind |-> "ico", listable |-> FALSE, images |-> <<>>, damaged |-> {}]
PngData(image) == [kind |-> "png", listable |-> FALSE, images |-> <<image>>, damaged |-> {}]
OtherData == [kind |-> "other", listable |-> FALSE, images |-> <<>>, damaged |-> {}]

hasFile(dir, n) == \E f \in dir : f.name = n
dataOf(dir, n) == (CHOOSE f \in dir : f.name = n).data
\* (mutant) a removal that removes nothing
removeFile_Nothing(dir, n) == dir

\* os.remove, and the source of os.rename and shutil.move
removeFile(dir, n) == {f \in dir : f.name # n}
writeFile(dir, n, d) == removeFile(dir, n) \cup {[name |-> n, data |-> d]}

\* os.rename inside one directory: the destination is replaced
renameFile(dir, from, to) ==
    IF from = to THEN dir ELSE writeFile(removeFile(dir, from), to, dataOf(dir, from))

EndsWith(t, e) == Len(t) >= Len(e) /\ SubSeq(t, Len(t) - Len(e) + 1, Len(t)) = e

\* glob.glob(os.path.join(dir, '*.*')): the names with a period that do not
\* start with one (glob skips hidden files)
globStarDotStar(dir) ==
    {f.name : f \in {g \in dir : g.name[1] # "." /\ \E i \in DOMAIN g.name : g.name[i] = "."}}

\* glob.glob(os.path.join(dir, "*.ico"))
globStarDotIco(dir) ==
    {f.name : f \in {g \in dir : g.name[1] # "." /\ EndsWith(g.name, DotIco)}}

\* lines 543-548: clearTemporary
clearTemporary(dir) == {f \in dir : f.name \notin globStarDotStar(dir)}

(***************************************************************************)
(* The external tools.  A run is logged with its tool, the file it was     *)
(* given, the image index (-1 if none) and its exit status.                *)
(***************************************************************************)

ToolRun(tool, file, index, exit) ==
    [tool |-> tool, file |-> file, index |-> index, exit |-> exit]

\* line 50: what "icotool -l" does on a file with the data
listerRun(data) ==
    IF data.listable
    THEN [exit |-> 0, out |-> icotoolList(data.images)]
    ELSE [exit |-> 1, out |-> <<Word("icotool:")>>]

\* a name that leaves the index out
iconExtractName_NoIndex(ico, image) ==
    basename(ico) \o <<"_">> \o ToDigits(image[WIDTH]) \o <<"x">>
        \o ToDigits(image[HEIGHT]) \o <<"x">> \o ToDigits(image[BIT_DEPTH]) \o DotPng

\* lines 72-80: the name of the file iconExtract returns, inside path
iconExtractName(ico, image) ==
    LET stem == IF getSuffix(ico) = <<".", "I", "C", "O">>
                THEN SubSeq(ico, 1, Len(ico) - 4)
                ELSE ico
    IN  basename(stem) \o <<"_">> \o ToDigits(image[INDEX]) \o <<"_">>
            \o ToDigits(image[WIDTH]) \o <<"x">> \o ToDigits(image[HEIGHT])
            \o <<"x">> \o ToDigits(image[BIT_DEPTH]) \o DotPng

\* lines 57-80: iconExtract(ico, image, self.temporary) on a file with the
\* data: "icotool -x" writes the .png into the scratch directory, and
\* check_call raises CalledProcessError if it exits non-zero
iconExtract(w, ico, data, image) ==
    LET exit == IF image[INDEX] \in data.damaged THEN 1 ELSE 0
        logged == [w EXCEPT !.runs = Append(@, ToolRun("icotool -x", ico, image[INDEX], exit))]
    IN  IF exit # 0
        THEN [logged EXCEPT !.raised = "CalledProcessError"]
        ELSE [logged EXCEPT !.temporary =
                 writeFile(@, iconExtractName(ico, image), PngData(image))]

\* lines 636-647: extractIcoFile(ico) on a file with the data
extractIcoFileTo(w, ico, data) ==
    LET run == listerRun(data)
        chosen == extractIcoFile(run)
        logged == [w EXCEPT !.runs = Append(@, ToolRun("icotool -l", ico, -1, run.exit))]
    IN  IF chosen.raised # "none"
        THEN [logged EXCEPT !.raised = chosen.raised]
        ELSE iconExtract(logged, ico, data, chosen.image)

\* lines 636-647: the path extractIcoFile returns, as a name of the scratch
\* directory
extractIcoFileName(ico, data) == iconExtractName(ico, extractIcoFile(listerRun(data)).image)

(***************************************************************************)
(* MainWindow.populateIconList, lines 663-696, with addIcon, lines         *)
(* 649-661.  The handlers work on a record w of the fields they change.    *)
(***************************************************************************)

\* the fields the handlers change
window ==
    [temporary |-> temporary, iconWidget |-> iconWidget, status |-> status,
     raised |-> raised, runs |-> runs, themeTree |-> themeTree, launchers |-> launchers,
     clears |-> clears, handler |-> handler]

\* the handler returns, or lets its exception escape, and leaves the fields as in w
Becomes(w) ==
    /\ temporary' = w.temporary
    /\ iconWidget' = w.iconWidget
    /\ status' = w.status
    /\ raised' = w.raised
    /\ runs' = w.runs
    /\ themeTree' = w.themeTree
    /\ launchers' = w.launchers
    /\ clears' = w.clears
    /\ handler' = w.handler

\* lines 649-661: addIcon(png, title); the first item of the list is selected
addIcon(w, png, title) ==
    [w EXCEPT !.iconWidget =
                 [items |-> Append(@.items, [title |-> title, png |-> png]),
                  selected |-> IF @.items = <<>> THEN 1 ELSE @.selected],
              !.status = Status("Icons extracted/found. Select one.")]

\* line 686: os.path.basename(ico)[prefixSize:][:-4]
titleOf(icoName, prefixSize) ==
    LET rest == SubSeq(icoName, prefixSize + 1, Len(icoName))
    IN  SubSeq(rest, 1, Len(rest) - 4)

\* lines 685-692: the loop over icoList, in the order given; an exception
\* ends it
RECURSIVE populateLoop(_, _, _)
populateLoop(w, icoList, prefixSize) ==
    IF icoList = <<>> THEN w
    ELSE LET ico == Head(icoList)
             title == titleOf(ico, prefixSize)
             icoName == title \o DotIco
             pngName == title \o DotPng
             data == dataOf(w.temporary, ico)
             renamed == [w EXCEPT !.temporary = renameFile(@, ico, icoName)]
             extracted == extractIcoFileTo(renamed, inTemporary(icoName), data)
         IN  IF extracted.raised # "none" THEN extracted
             ELSE populateLoop(
                      addIcon([extracted EXCEPT !.temporary =
                                  renameFile(@, extractIcoFileName(inTemporary(icoName), data),
                                             pngName)],
                              inTemporary(pngName), title),
                      Tail(icoList), prefixSize)

\* lines 665-672: the list and the scratch directory cleared, then for a
\* container the run of wrestool, whose exit status bash returns and line 672
\* drops; when the process could not be started, bash has set code to 127
\* and its exception ends populateIconList
afterWrestool(w, path, wrestool) ==
    LET cleared == [w EXCEPT !.iconWidget = [items |-> <<>>, selected |-> 0],
                             !.temporary = clearTemporary(@),
                             !.clears = Append(@, Len(w.runs))]
    IN  IF multiIconFile(getSuffix(path))
        THEN IF bash(wrestool.process).raised # "none"
             THEN [cleared EXCEPT
                      !.raised = bash(wrestool.process).raised,
                      !.runs = Append(@, ToolRun("wrestool", path, -1, 127))]
             ELSE [cleared EXCEPT
                      !.temporary = {f \in @ : ~hasFile(wrestool.files, f.name)}
                                        \cup wrestool.files,
                      !.runs = Append(@, ToolRun("wrestool", path, -1, wrestool.process.exit))]
        ELSE cleared

\* lines 663-696: populateIconList(iconPath); wrestool is what wrestool does
\* on the path, data what the file at the path holds, and icoList the list
\* glob returns at line 680, in its order
populateIconList(w, path, wrestool, data, icoList) ==
    LET w1 == afterWrestool(w, path, wrestool)
        suffix == getSuffix(path)
    IN  IF w1.raised # "none" THEN w1
        ELSE IF multiIconFile(suffix)
        THEN IF w1.temporary = {}
             THEN [w1 EXCEPT !.status =
                      Status("Could not extract/find any icons! Try using wrestool manually.")]
             ELSE IF icoList = <<>>
             THEN [w1 EXCEPT !.status =
                      Status("Could not convert ico(s) to png(s)! Try using icotool manually, or try GIMP.")]
             ELSE populateLoop(w1, icoList, Len(basename(path)) + 4)
        ELSE IF suffix = <<".", "I", "C", "O">>
        THEN LET extracted == extractIcoFileTo(w1, path, data)
             IN  IF extracted.raised # "none" THEN extracted
                 ELSE addIcon(extracted, inTemporary(extractIcoFileName(path, data)),
                              basename(path))
        ELSE addIcon(w1, path, basename(path))

(***************************************************************************)
(* MainWindow.createLauncher, lines 705-780.                               *)
(***************************************************************************)

\* line 722: the key (width, height, -bit depth) of a is less than that of b
sortKeyLess(a, b) ==
    \/ a[WIDTH] < b[WIDTH]
    \/ a[WIDTH] = b[WIDTH] /\ a[HEIGHT] < b[HEIGHT]
    \/ a[WIDTH] = b[WIDTH] /\ a[HEIGHT] = b[HEIGHT] /\ -a[BIT_DEPTH] < -b[BIT_DEPTH]

\* line 722: list.sort, which is stable: an image goes behind the images
\* whose key is not greater
RECURSIVE sortImages(_)
sortImages(imgs) ==
    IF imgs = <<>> THEN <<>>
    ELSE LET init == sortImages(SubSeq(imgs, 1, Len(imgs) - 1))
             last == imgs[Len(imgs)]
             k == Cardinality({i \in DOMAIN init : ~sortKeyLess(last, init[i])})
         IN  SubSeq(init, 1, k) \o <<last>> \o SubSeq(init, k + 1, Len(init))

\* line 724: os.path.expanduser("~/.local/share/icons/hicolor")
iconPathBase ==
    <<"/", "home", "/", "u", "/", ".local", "/", "share", "/", "icons", "/", "hicolor">>

\* line 735: os.path.join(iconPathBase, "{}x{}".format(width, height), "apps")
themeDirectory(image) ==
    iconPathBase \o <<"/">> \o ToDigits(image[WIDTH]) \o <<"x">> \o ToDigits(image[HEIGHT])
        \o <<"/", "apps">>

\* line 741: the file of the theme tree the image is moved to
themeFile(image, iconDestination) ==
    themeDirectory(image) \o <<"/">> \o iconDestination \o DotPng

\* str.lower on one character
lowerChar(c) ==
    IF \E i \in DOMAIN UpperCase : UpperCase[i] = c
    THEN LowerCase[CHOOSE i \in DOMAIN UpperCase : UpperCase[i] = c]
    ELSE c

\* line 729: unicodedata.normalize('NFKD', c): a letter with an accent is the
\* letter and the combining accent, a ligature is its letters
nfkd(c) ==
    IF c = "e-acute" THEN <<"e", "combining-acute">>
    ELSE IF c = "fi-ligature" THEN <<"f", "i">>
    ELSE <<c>>

\* line 730: unicodedata.combining(c)
combining(c) == c = "combining-acute"

\* (mutant) the test of line 727 without the underscore and the period
keptInIconName_AlnumOnly(c) ==
    \/ \E i \in DOMAIN LowerCase : c \in {LowerCase[i], UpperCase[i]}
    \/ IsDigit(c)

\* line 727: c.isalnum() and ord(c) < 0x80 or c in ["_", "."]
keptInIconName(c) ==
    \/ \E i \in DOMAIN LowerCase : c \in {LowerCase[i], UpperCase[i]}
    \/ IsDigit(c)
    \/ c \in {"_", "."}

\* lines 725-730: the icon's name in the theme
iconDestinationOf(nameText) ==
    LET decomposed == Flatten([i \in DOMAIN basename(nameText) |-> nfkd(basename(nameText)[i])])
        base == SelectSeq(decomposed, LAMBDA c : ~combining(c))
    IN  <<"wlcreator-">> \o
            [i \in DOMAIN base |-> IF keptInIconName(base[i]) THEN lowerChar(base[i]) ELSE "-"]

\* (mutant) the loop of lines 732-742 without the test of line 734
RECURSIVE themeLoop_NoSkip(_, _, _, _, _, _)
themeLoop_NoSkip(w, iconSource, data, imgs, prev, iconDestination) ==
    IF imgs = <<>> THEN w
    ELSE LET image == Head(imgs)
             extracted == iconExtract(w, iconSource, data, image)
         IN  IF extracted.raised # "none" THEN extracted
             ELSE themeLoop_NoSkip(
                      [extracted EXCEPT
                          !.temporary = removeFile(@, iconExtractName(iconSource, image)),
                          !.themeTree = writeFile(@, themeFile(image, iconDestination),
                                                  PngData(image))],
                      iconSource, data, Tail(imgs), image, iconDestination)

\* lines 732-742: the loop over the sorted images; prev is <<>> for None.
\* iconExtract writes the .png into the scratch directory and shutil.move
\* takes it from there into the theme tree, replacing a file of that name.
RECURSIVE themeLoop(_, _, _, _, _, _)
themeLoop(w, iconSource, data, imgs, prev, iconDestination) ==
    IF imgs = <<>> THEN w
    ELSE LET image == Head(imgs)
         IN  IF prev = <<>> \/ image[WIDTH] # prev[WIDTH] \/ image[HEIGHT] # prev[HEIGHT]
             THEN LET extracted == iconExtract(w, iconSource, data, image)
                  IN  IF extracted.raised # "none" THEN extracted
                      ELSE themeLoop(
                               [extracted EXCEPT
                                   !.temporary = removeFile(@, iconExtractName(iconSource, image)),
                                   !.themeTree = writeFile(@, themeFile(image, iconDestination),
                                                           PngData(image))],
                               iconSource, data, Tail(imgs), image, iconDestination)
             ELSE themeLoop(w, iconSource, data, Tail(imgs), image, iconDestination)

\* lines 720-744: the catalog listed by iconImages, where run is what
\* "icotool -l" does on iconSource, sorted, and the loop.  The exit status of
\* xdg-icon-resource (line 744) is not looked at and changes nothing here.
buildThemeTree(w, iconSource, run, data, iconDestination) ==
    LET listed == iconImages(run)
        logged == [w EXCEPT !.runs = Append(@, ToolRun("icotool -l", iconSource, -1, run.exit))]
    IN  IF listed.raised # "none"
        THEN [logged EXCEPT !.raised = listed.raised]
        ELSE themeLoop(logged, iconSource, data, sortImages(listed.images), <<>>,
                       iconDestination)

\* lines 307-308: the desktop directory xdg-user-dir names, which is the
\* launcher path of the default configuration (lines 311 and 784)
desktopPath == <<"/", "home", "/", "u", "/", "Desktop">>

\* line 773: os.path.expanduser("~/.local/share/applications/wlcreator/")
launcherLocalAppDirectory ==
    <<"/", "home", "/", "u", "/", ".local", "/", "share", "/", "applications", "/",
      "wlcreator", "/">>

\* lines 316 and 487: the check box "Make .desktop executable" is checked
executableIconChecked == TRUE

\* an executable whose name starts with a period
HiddenExe == <<"/", "g", "/", ".", "h", ".", "e", "x", "e">>

\* the files the user can name: an executable with icon resources, an .ico
\* file of three images, a .png file, an .ico file icotool cannot list, an
\* .ico file icotool can list and not extract, and the hidden executable
SourceFiles ==
    {[name |-> <<"/", "g", "/", "a", ".", "e", "x", "e">>, data |-> OtherData],
     [name |-> HiddenExe, data |-> OtherData],
     [name |-> <<"/", "g", "/", "b", ".", "I", "C", "O">>,
      data |-> IcoData(<<<<1, 16, 16, 8>>, <<2, 32, 32, 8>>, <<3, 16, 16, 32>>>>, {})],
     [name |-> <<"/", "g", "/", "c", ".", "p", "n", "g">>, data |-> PngData(<<1, 48, 48, 32>>)],
     [name |-> <<"/", "g", "/", "d", ".", "i", "c", "o">>, data |-> UnlistableIco],
     [name |-> <<"/", "g", "/", "e", ".", "i", "c", "o">>,
      data |-> IcoData(<<<<1, 32, 32, 8>>>>, {1})]}

\* the directories that exist
Directories == {<<"/">>, <<"/", "g">>}

\* line 243: os.access(path, os.F_OK)
pathExists(path) == hasFile(SourceFiles, path) \/ path \in Directories

\* the file icotool finds at the path: a file of the scratch directory, a
\* file of the user, or none
fileData(dir, path) ==
    IF Len(path) > Len(temporaryDir) + 1 /\ SubSeq(path, 1, Len(temporaryDir) + 1) = temporaryDir \o <<"/">>
    THEN IF hasFile(dir, basename(path)) THEN dataOf(dir, basename(path)) ELSE UnlistableIco
    ELSE IF hasFile(SourceFiles, path) THEN dataOf(SourceFiles, path) ELSE UnlistableIco

\* lines 748-780: the text of the launcher and the two files written
writeLaunchers(w, iconDestination) ==
    LET launcherText ==
            [shebang |-> executableIconChecked,
             Name |-> name,
             Icon |-> iconDestination,
             Exec |-> commandLine,
             Path |-> dirname(executable.path),
             Categories |-> <<>>]
        file == name \o <<".desktop">>
        launcherPath == desktopPath \o <<"/">> \o file
        launcherLocalAppPath == launcherLocalAppDirectory \o file
    IN  [w EXCEPT
            !.launchers = writeFile(writeFile(@, launcherPath, launcherText),
                                    launcherLocalAppPath, launcherText),
            !.status =
                [message |-> "Launcher created in . A copy is also in ~/.local/share/applications/wlcreator/",
                 path |-> desktopPath]]

\* (mutant) createLauncher without the tests of lines 707-718
createLauncher_Unguarded(w) == writeLaunchers(w, iconPath.path)

\* lines 705-780: createLauncher
createLauncher(w) ==
    IF ~executable.pathValid THEN w
    ELSE IF ~application.pathValid THEN w
    ELSE IF multiIconFile(getSuffix(iconPath.path)) /\ w.iconWidget.selected = 0
    THEN [w EXCEPT !.status = Status("You need to select an icon first.")]
    ELSE LET iconSource ==
                 IF multiIconFile(getSuffix(iconPath.path))
                 THEN inTemporary(w.iconWidget.items[w.iconWidget.selected].title \o DotIco)
                 ELSE iconPath.path
             data == fileData(w.temporary, iconSource)
         IN  IF getSuffix(iconSource) = <<".", "I", "C", "O">>
             THEN LET themed == buildThemeTree(w, iconSource, listerRun(data), data,
                                               iconDestinationOf(name))
                  IN  IF themed.raised # "none" THEN themed
                      ELSE writeLaunchers(themed, iconDestinationOf(name))
             ELSE writeLaunchers(w, iconSource)

(***************************************************************************)
(* MainWindow.debugLauncher, lines 628-634, and MainWindow.cleanup, lines  *)
(* 537-541.                                                                *)
(***************************************************************************)

\* (mutant) debugLauncher with a call of clearTemporary
debugLauncher_Clears(w) ==
    [w EXCEPT !.temporary = clearTemporary(@), !.clears = Append(@, Len(w.runs))]

\* lines 628-634: the command is run and its output shown in the dialog; the
\* fields of the window stay as they are
debugLauncher(w) == w

\* lines 537-541: saveConfig writes the settings, which the model keeps
\* fixed; clearTemporary; os.rmdir raises OSError on a directory that still
\* holds a file
cleanup(w) ==
    LET cleared == [w EXCEPT !.temporary = clearTemporary(@),
                             !.clears = Append(@, Len(w.runs))]
    IN  IF cleared.temporary # {}
        THEN [cleared EXCEPT !.raised = "OSError"]
        ELSE cleared

(***************************************************************************)
(* The specification of the window: the user edits the exe path and the    *)
(* icon path, selects an icon of the list and clicks "Create exe           *)
(* launcher".  The two check boxes of commandLine stay unchecked and the   *)
(* settings stay those of the default configuration.                       *)
(***************************************************************************)

\* the launcher files the model lets createLauncher leave behind
MaxLauncherFiles == 2

ExePaths == {<<"/", "g", "/", "a", ".", "e", "x", "e">>, <<"/", "z", ".", "e", "x", "e">>}

IconPaths ==
    ({f.name : f \in SourceFiles} \ {HiddenExe}) \cup {<<"/", "z", ".", "e", "x", "e">>}

Names == {<<"G", SP, "e-acute">>}

\* the icon resources of /g/a.exe
Resource1 == IcoData(<<<<1, 32, 32, 8>>, <<2, 32, 32, 32>>>>, {})
Resource2 == IcoData(<<<<1, 16, 16, 32>>>>, {})
Resource3 == IcoData(<<<<1, 48, 48, 32>>>>, {1})

\* the file wrestool writes for the icon resource of the name
wrestoolFile(path, resource, data) ==
    [name |-> basename(path) \o <<"_", "1", "4", "_", resource>> \o DotIco, data |-> data]

\* line 672: the process of wrestool ran to the exit status and wrote the
\* files
wrestoolExit(exit, files) ==
    [process |-> [started |-> TRUE, read |-> TRUE, out |-> <<>>, exit |-> exit], files |-> files]

\* line 672: the process of wrestool could not be started
wrestoolNotStarted ==
    [process |-> [started |-> FALSE, read |-> FALSE, out |-> <<>>, exit |-> 0], files |-> {}]

\* line 672: what "wrestool -x -t 14" can do on the path: extract every icon
\* resource (one of them an icon icotool cannot extract), find none, fail on
\* a file it cannot read, fail after it has written a part, not be there at
\* all (the shell exits with 127), or have no shell started for it
WrestoolOutcomes(path) ==
    IF ~hasFile(SourceFiles, path)
    THEN {wrestoolExit(1, {}), wrestoolExit(127, {}), wrestoolNotStarted}
    ELSE {wrestoolExit(0, {wrestoolFile(path, "1", Resource1),
                           wrestoolFile(path, "2", Resource2)}),
          wrestoolExit(0, {wrestoolFile(path, "1", Resource1),
                           wrestoolFile(path, "3", Resource3)}),
          wrestoolExit(0, {}),
          wrestoolExit(1, {}),
          wrestoolExit(1, {wrestoolFile(path, "1", Resource1)}),
          wrestoolExit(127, {}),
          wrestoolNotStarted}

\* the orders in which glob can list the names
Orders(S) == {o \in [1..Cardinality(S) -> S] : \A i, j \in DOMAIN o : i # j => o[i] # o[j]}

\* the event loop has ended and cleanup has run (lines 894-895)
closed == handler = "cleanup"

\* a handler starts: no exception, no tool run yet
started == [window EXCEPT !.raised = "none", !.runs = <<>>, !.clears = <<>>,
                          !.handler = "edited"]

\* the handler of the name starts
startedAs(h) == [started EXCEPT !.handler = h]

\* lines 562-563: iconCallback with the icon path: populateIconList, for one
\* of the outcomes of wrestool and one of the orders of glob
iconCallback(w, path) ==
    LET outcomes == IF multiIconFile(getSuffix(path))
                    THEN WrestoolOutcomes(path)
                    ELSE {wrestoolExit(0, {})}
    IN  UNION {{populateIconList(w, path, wrestool, fileData(w.temporary, path), icoList) :
                   icoList \in Orders(globStarDotIco(afterWrestool(w, path, wrestool).temporary))} :
               wrestool \in outcomes}

Init ==
    /\ EscapeIdle
    /\ CommandIdle
    /\ IcoIdle
    /\ GuiIdle
    /\ ShellIdle

\* lines 240-250: the text of the icon path is edited and BrowseControl.edited
\* runs: an invalid path ends it (the control has no setStatus), a valid one
\* calls iconCallback
IconEdited ==
    \E path \in IconPaths :
        /\ ~closed
        /\ path # iconPath.path
        /\ iconPath' = [path |-> path, pathValid |-> pathExists(path)]
        /\ IF pathExists(path)
           THEN \E w \in iconCallback(startedAs("populateIconList"), path) : Becomes(w)
           ELSE Becomes(started)
        /\ UNCHANGED <<application, name, escapeVars, commandVars, icoVars, shell>>

\* lines 240-250 and 555-567: the text of the exe path is edited: an invalid
\* path ends with a message; a valid one calls exeCallback, which sets the
\* text of the application path (whose edited calls appCallback, which sets
\* the name) and the text of the icon path (whose edited calls
\* iconCallback); Qt emits textChanged only if the text changes
ExeEdited ==
    \E path \in ExePaths :
        /\ ~closed
        /\ path # executable.path
        /\ executable' = [path |-> path, pathValid |-> pathExists(path)]
        /\ IF ~pathExists(path)
           THEN /\ Becomes([started EXCEPT !.status =
                               [message |-> "Exe path not valid!(' doesn't exist)", path |-> path]])
                /\ UNCHANGED <<application, name, iconPath>>
           ELSE LET directory == dirname(path)
                    appChanged == directory # application.path
                    iconChanged == path # iconPath.path
                    ok == [started EXCEPT !.status = Status("OK.")]
                    afterApp ==
                        IF appChanged /\ ~pathExists(directory)
                        THEN [ok EXCEPT !.status =
                                 [message |-> "Toplevel app path not valid!(' doesn't exist)",
                                  path |-> directory]]
                        ELSE ok
                IN  /\ application' = IF appChanged
                                      THEN [path |-> directory, pathValid |-> pathExists(directory)]
                                      ELSE application
                    /\ name' = IF appChanged /\ pathExists(directory)
                               THEN basename(directory)
                               ELSE name
                    /\ iconPath' = IF iconChanged THEN [path |-> path, pathValid |-> TRUE]
                                   ELSE iconPath
                    /\ IF iconChanged
                       THEN \E w \in iconCallback([afterApp EXCEPT !.handler = "populateIconList"],
                                                   path) : Becomes(w)
                       ELSE Becomes(afterApp)
        /\ UNCHANGED <<prefix, appParams, resolutionFix, legacyFS, command, escapeVars, icoVars,
                       shell>>

\* the application paths typed: the directory of the files and one that does
\* not exist
AppPaths == {<<"/", "g">>, <<"/", "n">>}

\* lines 240-250 and 565-567: the text of the application path is edited: an
\* invalid path ends with a message, a valid one calls appCallback, which
\* sets the name
AppEdited ==
    \E path \in AppPaths :
        /\ ~closed
        /\ path # application.path
        /\ application' = [path |-> path, pathValid |-> pathExists(path)]
        /\ IF ~pathExists(path)
           THEN /\ Becomes([started EXCEPT !.status =
                               [message |-> "Toplevel app path not valid!(' doesn't exist)",
                                path |-> path]])
                /\ name' = name
           ELSE /\ Becomes([started EXCEPT !.status = Status("OK.")])
                /\ name' = basename(path)
        /\ UNCHANGED <<iconPath, escapeVars, commandVars, icoVars, shell>>

\* lines 269-272: the text of the name is edited
NameEdited ==
    \E nameText \in Names :
        /\ ~closed
        /\ nameText # name
        /\ name' = nameText
        /\ UNCHANGED <<iconPath, application, temporary, iconWidget, themeTree, launchers,
                       status, raised, runs, clears, handler, escapeVars, commandVars, icoVars,
                       shell>>

\* the user selects an item of the list
SelectIcon ==
    \E i \in DOMAIN iconWidget.items :
        /\ ~closed
        /\ i # iconWidget.selected
        /\ iconWidget' = [iconWidget EXCEPT !.selected = i]
        /\ UNCHANGED <<iconPath, application, name, temporary, themeTree, launchers,
                       status, raised, runs, clears, handler, escapeVars, commandVars, icoVars,
                       shell>>

\* the button "Create exe launcher" (line 456)
CreateLauncher ==
    /\ ~closed
    /\ Cardinality(createLauncher(startedAs("createLauncher")).launchers) <= MaxLauncherFiles
    /\ Becomes(createLauncher(startedAs("createLauncher")))
    /\ UNCHANGED <<iconPath, application, name, escapeVars, commandVars, icoVars, shell>>

Next ==
    \/ ExeEdited \/ IconEdited \/ SelectIcon \/ CreateLauncher

Spec == Init /\ [][Next]_vars

(***************************************************************************)
(* The specification of the paths createLauncher tests: the user edits the *)
(* exe path and the application path and clicks "Create exe launcher".     *)
(***************************************************************************)
GuardsNext == ExeEdited \/ AppEdited \/ CreateLauncher

SpecGuards == Init /\ [][GuardsNext]_vars

(***************************************************************************)
(* The specification of a whole session of the window: the user edits the  *)
(* exe path, the icon path (an .ico file, a hidden executable or a path    *)
(* that does not exist) and the name, selects an icon, clicks "Create exe  *)
(* launcher" and "Debug launching", and closes the window, which ends the  *)
(* event loop and calls cleanup.                                           *)
(***************************************************************************)
SessionIconPaths ==
    {HiddenExe, <<"/", "g", "/", "b", ".", "I", "C", "O">>, <<"/", "z", ".", "e", "x", "e">>}

\* lines 240-250: the text of the icon path is edited, as in IconEdited
SessionIconEdited ==
    \E path \in SessionIconPaths :
        /\ ~closed
        /\ path # iconPath.path
        /\ iconPath' = [path |-> path, pathValid |-> pathExists(path)]
        /\ IF pathExists(path)
           THEN \E w \in iconCallback(startedAs("populateIconList"), path) : Becomes(w)
           ELSE Becomes(started)
        /\ UNCHANGED <<application, name, escapeVars, commandVars, icoVars, shell>>

\* the button "Debug launching" (line 445): debugLauncher, lines 628-634,
\* composes the command and the dialog runs it; nothing of the window changes
DebugLauncher ==
    /\ ~closed
    /\ Becomes(debugLauncher(startedAs("debugLauncher")))
    /\ UNCHANGED <<iconPath, application, name, escapeVars, commandVars, icoVars, shell>>

\* the window is closed: the event loop ends and line 895 calls cleanup
Cleanup ==
    /\ ~closed
    /\ Becomes(cleanup(startedAs("cleanup")))
    /\ UNCHANGED <<iconPath, application, name, escapeVars, commandVars, icoVars, shell>>

SessionNext ==
    \/ ExeEdited \/ SessionIconEdited \/ NameEdited \/ SelectIcon
    \/ CreateLauncher \/ DebugLauncher \/ Cleanup

SpecSession == Init /\ [][SessionNext]_vars

(***************************************************************************)
(* The specification of the icon catalog: the lister's exit status and     *)
(* output are drawn, either pieces of output in any order or the listing   *)
(* of an .ico file that holds some images; iconImages and extractIcoFile   *)
(* are called on it.                                                       *)
(***************************************************************************)
MaxOutputPieces == 4
MaxCatalogLen == 3

\* the pieces the lister's output is put together from
OutputPieces ==
    {<<Newline>>,
     <<Attr("icon", <<>>), Attr("index", <<"0">>), Attr("width", <<"1", "6">>),
       Attr("height", <<"1", "6">>), Attr("bit-depth", <<"8">>)>>,
     <<Attr("index", <<"1">>), Attr("width", <<"3", "2">>), Attr("height", <<"3", "2">>)>>,
     <<Attr("bit-depth", <<"3", "2">>)>>,
     <<Attr("bit-depth", <<>>)>>,
     <<Word("icotool:"), Attr("width", <<"x">>)>>}

RawOutputs == {Flatten(ps) : ps \in SeqsUpTo(OutputPieces, MaxOutputPieces)}

\* the sizes and bit depths of the images of the .ico files
IconSizes == {<<16, 16>>, <<32, 32>>, <<16, 64>>, <<96, 96>>, <<64, 64>>, <<48, 48>>}
BitDepths == {8, 32}

\* the catalogs: the image at position i has index i - 1
Catalogs ==
    UNION {[1..n -> IconSizes \X BitDepths] : n \in 1..MaxCatalogLen}

CatalogImages(c) == [i \in DOMAIN c |-> <<i - 1, c[i][1][1], c[i][1][2], c[i][2]>>]

IcoInit ==
    /\ lister \in [exit : {0, 1}, out : RawOutputs]
                    \cup [exit : {0}, out : {icotoolList(CatalogImages(c)) : c \in Catalogs}]
    /\ images = NotCalled
    /\ best = NotCalled
    /\ EscapeIdle
    /\ CommandIdle
    /\ GuiIdle
    /\ ShellIdle

\* a call iconImages(ico)
IconImages ==
    /\ images = NotCalled
    /\ images' = iconImages(lister)
    /\ UNCHANGED <<lister, best, escapeVars, commandVars, guiVars, shell>>

\* a call self.extractIcoFile(ico), up to its call of iconExtract
ExtractIcoFile ==
    /\ best = NotCalled
    /\ best' = extractIcoFile(lister)
    /\ UNCHANGED <<lister, images, escapeVars, commandVars, guiVars, shell>>

IcoNext == IconImages \/ ExtractIcoFile

SpecIcoFile == IcoInit /\ [][IcoNext]_vars

(***************************************************************************)
(* The specification of the theme tree: an .ico file is drawn by its       *)
(* catalog, with the indexes icotool fails to extract, and lines 720-744   *)
(* of createLauncher run with the file as iconSource.                      *)
(***************************************************************************)

\* the .ico file
IcoSource == <<"/", "g", "/", "b", ".", "I", "C", "O">>

ThemeSizes == {<<16, 16>>, <<16, 64>>, <<32, 32>>}

ThemeCatalogs == UNION {[1..n -> ThemeSizes \X BitDepths] : n \in 1..MaxCatalogLen}

ThemeInit ==
    /\ lister \in [exit : {0}, out : {icotoolList(CatalogImages(c)) : c \in ThemeCatalogs}]
                    \cup {[exit |-> 1, out |-> <<>>]}
    /\ images = NotCalled
    /\ best = NotCalled
    /\ EscapeIdle
    /\ CommandIdle
    /\ GuiIdle
    /\ ShellIdle

\* lines 720-744 of createLauncher; icotool extracts every image of the file,
\* or every image but the first
BuildThemeTree ==
    /\ runs = <<>>
    /\ \E damaged \in {{}, {0}} :
          Becomes(buildThemeTree([window EXCEPT !.handler = "createLauncher"],
                                 IcoSource, lister,
                                 IcoData(iconImages(lister).images, damaged),
                                 iconDestinationOf(name)))
    /\ UNCHANGED <<icoVars, escapeVars, commandVars, iconPath, application, name, shell>>

ThemeNext == BuildThemeTree

SpecThemeTree == ThemeInit /\ [][ThemeNext]_vars

(***************************************************************************)
(* The specification of the single-image extractor: iconExtract is called  *)
(* on images of .ico files, in any order and more than once, with the      *)
(* scratch directory as destination.                                       *)
(***************************************************************************)
MaxExtractRuns == 3

\* the .ico files and their images: two files of the same base name in
\* different directories, and a file of the scratch directory whose second
\* image icotool cannot extract
ExtractSources ==
    {[name |-> <<"/", "g", "/", "b", ".", "I", "C", "O">>,
      data |-> IcoData(<<<<1, 16, 16, 8>>, <<11, 6, 16, 8>>, <<2, 16, 16, 8>>>>, {})],
     [name |-> <<"/", "b", ".", "i", "c", "o">>,
      data |-> IcoData(<<<<1, 16, 16, 8>>>>, {})],
     [name |-> inTemporary(<<"a", ".", "e", "x", "e", "_", "1", "4", "_", "1">> \o DotIco),
      data |-> IcoData(<<<<1, 16, 16, 8>>, <<2, 16, 16, 8>>>>, {2})]}

\* lines 57-80: one call of iconExtract(ico, image, self.temporary)
IconExtract ==
    /\ Len(runs) < MaxExtractRuns
    /\ \E source \in ExtractSources :
          \E i \in DOMAIN source.data.images :
              Becomes(iconExtract([window EXCEPT !.raised = "none"], source.name,
                                  source.data, source.data.images[i]))
    /\ UNCHANGED <<icoVars, escapeVars, commandVars, iconPath, application, name, shell>>

ExtractNext == IconExtract

SpecExtract == Init /\ [][ExtractNext]_vars

(***************************************************************************)
(* The specification of the icon's name: the user types a launcher name    *)
(* and createLauncher builds the theme tree of an .ico file of one image.  *)
(***************************************************************************)
MaxNameLen == 3

\* the characters of the launcher names: letters, a digit, the underscore,
\* the period, the space, the slash, a letter with an accent, a combining
\* accent and a ligature
NameChars == {"G", "e", "1", "_", ".", SP, "/", "e-acute", "combining-acute", "fi-ligature"}

NameTexts == SeqsUpTo(NameChars, MaxNameLen)

\* what icotool finds in the .ico file
NamedIconData == IcoData(<<<<1, 16, 16, 8>>>>, {})

\* lines 269-272: the text of the empty name is edited, before any launcher
\* is made
NameTyped ==
    \E nameText \in NameTexts :
        /\ themeTree = {}
        /\ name = <<>>
        /\ nameText # name
        /\ name' = nameText
        /\ UNCHANGED <<iconPath, application, temporary, iconWidget, themeTree, launchers,
                       status, raised, runs, clears, handler, escapeVars, commandVars, icoVars,
                       shell>>

\* lines 720-744 of createLauncher on the .ico file, with the name typed
BuildNamedIcon ==
    /\ themeTree = {}
    /\ Becomes(buildThemeTree([window EXCEPT !.handler = "createLauncher"], IcoSource,
                              listerRun(NamedIconData), NamedIconData,
                              iconDestinationOf(name)))
    /\ UNCHANGED <<icoVars, escapeVars, commandVars, iconPath, application, name, shell>>

NameNext == NameTyped \/ BuildNamedIcon

SpecIconName == Init /\ [][NameNext]_vars

(***************************************************************************)
(* The specification of escape: a text and a flag are drawn, escape is     *)
(* applied, and its result is escaped once more with allowSingleQuote =    *)
(* False, as commandLine does with the tokens it has escaped (line 624).   *)
(***************************************************************************)
MaxTextLen == 2

\* The characters the texts are drawn from: both classes of escape in full,
\* and three characters of neither class.
TextChars ==
    {SQ, TAB, NL,
     DQ, BS, SP, ">", "<", "~", "|", "&", ";", "$", "*", "?", "#", "(", ")", BT, "=",
     "a", "t", "n"}

Texts == SeqsUpTo(TextChars, MaxTextLen)

EscapeInit ==
    /\ text \in Texts
    /\ allowSingleQuote \in BOOLEAN
    /\ escaped = <<>>
    /\ CommandIdle
    /\ IcoIdle
    /\ GuiIdle
    /\ ShellIdle

\* a call escape(text, allowSingleQuote)
EscapeText ==
    /\ escaped = <<>>
    /\ escaped' = <<escape(text, allowSingleQuote)>>
    /\ UNCHANGED <<text, allowSingleQuote, commandVars, icoVars, guiVars, shell>>

\* the result is passed to escape again, as line 624 does
EscapeAgain ==
    /\ Len(escaped) = 1
    /\ escaped' = Append(escaped, escape(escaped[1], FALSE))
    /\ UNCHANGED <<text, allowSingleQuote, commandVars, icoVars, guiVars, shell>>

EscapeNext == EscapeText \/ EscapeAgain

SpecEscape == EscapeInit /\ [][EscapeNext]_vars

(***************************************************************************)
(* The specification of bash: the program starts, and checkDependencies    *)
(* calls bash("wrestool --version") (lines 891, 147) with a process        *)
(* that does one of the things a process can do.                           *)
(***************************************************************************)

MaxOutputBytes == 2

\* the bytes a process writes
OutputBytes == {"a", NL} \cup HighBytes

\* what poll returns: the exit status, 127 of the shell that does not find
\* the command, and the negated number of the signal that ended the shell
ExitCodes == {0, 1, 127, -9}

\* what the process of one call can do: Popen raises; communicate raises;
\* or the process runs to its end, its output read
Processes ==
    {[started |-> FALSE, read |-> FALSE, out |-> <<>>, exit |-> 0],
     [started |-> TRUE, read |-> FALSE, out |-> <<>>, exit |-> 0]}
        \cup {[started |-> TRUE, read |-> TRUE, out |-> out, exit |-> exit] :
                 out \in SeqsUpTo(OutputBytes, MaxOutputBytes), exit \in ExitCodes}

\* line 891: the program calls checkDependencies, once
CheckDependencies ==
    \E process \in Processes :
        /\ ShellIdle
        /\ shell' = checkDependencies(process)
        /\ UNCHANGED <<escapeVars, commandVars, icoVars, guiVars>>

BashNext == CheckDependencies

SpecBash == Init /\ [][BashNext]_vars

(***************************************************************************)
(* Claims about escape, checked under SpecEscape.                          *)
(***************************************************************************)

\* the reserved characters as the decision table lists them
TableReserved ==
    {DQ, BS, ">", "<", "~", "|", "&", ";", "$", "*", "?", "#", "(", ")", BT, "=", SP}

\* the characters that make single quoting unsafe, as the table lists them
TableSQUnsafe == {SQ, TAB, NL}

TextHasReserved == \E i \in DOMAIN text : text[i] \in TableReserved
TextHasSQUnsafe == \E i \in DOMAIN text : text[i] \in TableSQUnsafe

WrappedInDQ(r) == Len(r) >= 2 /\ r[1] = DQ /\ r[Len(r)] = DQ

\* C2: escape picks its quoting mode by the decision table: the result is the
\* text wrapped in single quotes, unchanged, iff allowSingleQuote holds, the
\* text has no single quote, tab or newline and has a reserved character;
\* otherwise it is wrapped in double quotes iff the text has a reserved
\* character or a single quote, tab or newline; otherwise it is the text.
C2_DecisionTable ==
    escaped # <<>> =>
        LET r == escaped[1]
            single == allowSingleQuote /\ ~TextHasSQUnsafe /\ TextHasReserved
        IN  /\ (r = <<SQ>> \o text \o <<SQ>>) <=> single
            /\ ~single => (WrappedInDQ(r) <=> (TextHasReserved \/ TextHasSQUnsafe))
            /\ (~single /\ ~WrappedInDQ(r)) => r = text

C2_Witness ==
    /\ escaped # <<>>
    /\ allowSingleQuote
    /\ text = <<"a", "=">>
    /\ escaped[1] = <<SQ, "a", "=", SQ>>

\* C3 as claimed: escaping the output of escape(text, False) again with
\* allowSingleQuote = False returns that output unchanged.
C3_Idempotent ==
    (Len(escaped) = 2 /\ ~allowSingleQuote) => escaped[2] = escaped[1]

\* C3 as amended: escape(escape(text, False), False) = escape(text, False)
\* exactly when the text has no reserved character and no single quote, tab
\* or newline; for every other text the second application quotes the output
\* of the first again and the two results differ.
C3_FixedPointIffUnquoted ==
    (Len(escaped) = 2 /\ ~allowSingleQuote) =>
        /\ (escaped[2] = escaped[1]) <=> ~(TextHasReserved \/ TextHasSQUnsafe)
        /\ (TextHasReserved \/ TextHasSQUnsafe) =>
              /\ WrappedInDQ(escaped[2])
              /\ Len(escaped[2]) > Len(escaped[1]) + 2

C3_Witness ==
    /\ Len(escaped) = 2
    /\ ~allowSingleQuote
    /\ text = <<"a", SP>>
    /\ escaped[1] = <<DQ, "a", SP, DQ>>
    /\ escaped[2] = <<DQ, BS, DQ, "a", SP, BS, DQ, DQ>>

\* what the double-quote branch makes of one character
DQBodyOf(c) ==
    IF c \in {DQ, BT, "$", BS} THEN <<BS, c>>
    ELSE IF c = TAB THEN <<BS, "t">>
    ELSE IF c = NL THEN <<BS, "n">>
    ELSE <<c>>

\* C4: in the double-quote branch the body between the two added double
\* quotes is the text with one backslash added before every double quote,
\* backtick, dollar sign and backslash, every tab replaced by backslash and
\* the letter t, every newline by backslash and the letter n, and every other
\* character copied in order; the result holds no raw tab or newline.
C4_DoubleQuoteBody ==
    (escaped # <<>> /\ escaped[1] # <<>> /\ escaped[1][1] = DQ) =>
        LET r == escaped[1]
        IN  /\ Len(r) >= 2
            /\ r[Len(r)] = DQ
            /\ SubSeq(r, 2, Len(r) - 1) = Flatten([i \in DOMAIN text |-> DQBodyOf(text[i])])
            /\ \A i \in DOMAIN r : r[i] \notin {TAB, NL}

C4_Witness ==
    /\ escaped # <<>>
    /\ text = <<TAB, "$">>
    /\ escaped[1] = <<DQ, BS, "t", BS, "$", DQ>>

\* C5: for a text that contains a single quote, escape(text, True) never
\* returns a single-quoted result: the result starts and ends with a double
\* quote.
C5_NoSingleQuotedResult ==
    (escaped # <<>> /\ allowSingleQuote /\ \E i \in DOMAIN text : text[i] = SQ) =>
        /\ WrappedInDQ(escaped[1])
        /\ escaped[1][1] # SQ

C5_Witness ==
    /\ escaped # <<>>
    /\ allowSingleQuote
    /\ text = <<SQ, SP>>
    /\ escaped[1] = <<DQ, SQ, SP, DQ>>

(***************************************************************************)
(* Claims about commandLine, checked under SpecCommandLine.                *)
(***************************************************************************)

\* what a POSIX shell reads from the body of a double-quoted word: a
\* backslash escapes a double quote, dollar sign, backtick or backslash after
\* it, and every other character stands for itself
RECURSIVE shReadDQ(_)
shReadDQ(b) ==
    IF b = <<>> THEN <<>>
    ELSE IF b[1] = BS /\ Len(b) >= 2 /\ b[2] \in {DQ, "$", BT, BS}
         THEN <<b[2]>> \o shReadDQ(SubSeq(b, 3, Len(b)))
         ELSE <<b[1]>> \o shReadDQ(Tail(b))

\* the body of a double-quoted word neither ends the word early nor starts
\* an expansion: every double quote, dollar sign and backtick in it follows
\* an escaping backslash, and no backslash is left dangling at its end
RECURSIVE shDQBodyIsLiteral(_)
shDQBodyIsLiteral(b) ==
    \/ b = <<>>
    \/ b[1] = BS /\ Len(b) >= 2 /\ shDQBodyIsLiteral(SubSeq(b, 3, Len(b)))
    \/ b[1] \notin {BS, DQ, "$", BT} /\ shDQBodyIsLiteral(Tail(b))

StartsWith(t, p) == Len(t) >= Len(p) /\ SubSeq(t, 1, Len(p)) = p

\* C7: the command built by commandLine is 'sh -c ' followed by one quoted
\* argument iff at least one of the two check boxes is checked; with neither
\* checked it is the bare command, and when wrapped the argument holds the
\* pre fragments, the application command and the post fragments in that
\* order.
C7_ShWrapperIffToggle ==
    command.built =>
        LET line == command.line
            toggled == resolutionFix \/ legacyFS
            arg == SubSeq(line, 5, Len(line))
            body == SubSeq(arg, 2, Len(arg) - 1)
        IN  /\ StartsWith(line, <<"sh", SP, "-c", SP>>) <=> toggled
            /\ ~toggled =>
                  /\ line = applicationCommand
                  /\ StartsWith(line, wineText) \/ StartsWith(line, <<"env", SP>>)
            /\ toggled =>
                  /\ WrappedInDQ(arg)
                  /\ shDQBodyIsLiteral(body)
                  /\ shReadDQ(body) = shPrefix \o applicationCommand \o shSuffix
                  /\ legacyFS => StartsWith(shReadDQ(body), <<"gconftool">>)
                  /\ ~legacyFS =>
                        \/ StartsWith(shReadDQ(body), wineText)
                        \/ StartsWith(shReadDQ(body), <<"env", SP>>)

C7_Witness ==
    /\ command.built
    /\ resolutionFix
    /\ ~legacyFS
    /\ executable.path = <<"/", "g", "/", "g">>
    /\ prefix = defaultWinePrefix
    /\ appParams = <<>>
    /\ command.line = <<"sh", SP, "-c", SP, DQ, "wine", SP, "g">> \o xrandrSuffix \o <<DQ>>

\* the path names a file in a directory: it has a slash, does not end with
\* one and has no empty component
LivesUnderDirectory(p) ==
    /\ \E i \in DOMAIN p : p[i] = "/"
    /\ p[Len(p)] # "/"
    /\ \A i \in 1..(Len(p) - 1) : ~(p[i] = "/" /\ p[i + 1] = "/")

\* C8: for every executable path that lives under its containing directory,
\* the filesystem root included, commandLine makes the path relative to that
\* directory before quoting it: the quoted executable token carries no
\* directory component.
C8_ExeTokenHasNoDirectory ==
    (command.built /\ LivesUnderDirectory(executable.path)) =>
        \A i \in DOMAIN command.exe : command.exe[i] # "/"

(***************************************************************************)
(* Claims about the icon catalog, checked under SpecIcoFile.               *)
(***************************************************************************)

SameScore(a, b) == ~scoreLess(a, b) /\ ~scoreLess(b, a)

\* C1 as claimed: for a non-empty catalog and the target size 64 the variant
\* chosen by extractIcoFile is a member of the catalog, no member has a
\* strictly smaller score |sqrt(width*height) - 64|, and among all members
\* whose score equals the chosen one's, whatever their width and height, the
\* chosen one has maximal bit depth.
C1_MaxDepthAmongEqualScore ==
    best.raised = "none" =>
        LET cat == best.images
            chosen == best.image
        IN  /\ \E i \in DOMAIN cat : cat[i] = chosen
            /\ \A i \in DOMAIN cat : ~scoreLess(cat[i], chosen)
            /\ \A i \in DOMAIN cat :
                  SameScore(cat[i], chosen) => cat[i][BIT_DEPTH] <= chosen[BIT_DEPTH]

\* C1 as amended: the chosen variant is a member of the catalog, no member
\* has a strictly smaller score, its width and height are those of the first
\* member of minimal score, and among the members of that same width and
\* height it has maximal bit depth (a member of equal score and another width
\* or height may have a greater bit depth).
C1_MaxDepthAmongSameSize ==
    best.raised = "none" =>
        LET cat == best.images
            chosen == best.image
            minimal == {i \in DOMAIN cat : \A j \in DOMAIN cat : ~scoreLess(cat[j], cat[i])}
            first == CHOOSE i \in minimal : \A j \in minimal : i <= j
        IN  /\ cat # <<>>
            /\ \E i \in DOMAIN cat : cat[i] = chosen
            /\ \A i \in DOMAIN cat : ~scoreLess(cat[i], chosen)
            /\ chosen[WIDTH] = cat[first][WIDTH]
            /\ chosen[HEIGHT] = cat[first][HEIGHT]
            /\ \A i \in DOMAIN cat :
                  (cat[i][WIDTH] = chosen[WIDTH] /\ cat[i][HEIGHT] = chosen[HEIGHT])
                      => cat[i][BIT_DEPTH] <= chosen[BIT_DEPTH]

\* the catalog of the end-to-end example: 32x32x32, 16x16x8, 32x32x8
C1_Witness ==
    /\ best.raised = "none"
    /\ best.images = << <<0, 32, 32, 8>>, <<1, 16, 16, 8>>, <<2, 32, 32, 32>> >>
    /\ best.image = <<2, 32, 32, 32>>

NewlineCount(out) == Cardinality({i \in DOMAIN out : out[i] = Newline})

EndsWithNewline(out) == out # <<>> /\ out[Len(out)] = Newline

\* C9: iconImages never returns an empty catalog: for every lister output it
\* returns at least one variant, each with integer index, width, height and
\* bit depth, or it fails with an error; exactly one trailing newline of the
\* output is stripped before the split into lines, so a returned catalog has
\* one variant per line of the output so stripped.
C9_NeverEmptyCatalog ==
    images # NotCalled =>
        /\ lister.exit # 0 => images.raised # "none"
        /\ images.raised = "none" =>
              /\ Len(images.images) >= 1
              /\ \A i \in DOMAIN images.images :
                    /\ DOMAIN images.images[i] = 1..4
                    /\ \A k \in 1..4 : images.images[i][k] \in Nat
              /\ Len(images.images) =
                    NewlineCount(lister.out) + 1 - (IF EndsWithNewline(lister.out) THEN 1 ELSE 0)
        /\ (Len(lister.out) >= 2 /\ EndsWithNewline(lister.out)
              /\ lister.out[Len(lister.out) - 1] = Newline) => images.raised # "none"
        /\ lister.out = <<>> => images.raised # "none"

C9_Witness ==
    /\ images # NotCalled
    /\ images.raised = "none"
    /\ EndsWithNewline(lister.out)
    /\ images.images = << <<0, 16, 16, 8>>, <<1, 32, 32, 32>> >>

(***************************************************************************)
(* The theme tree of createLauncher, under SpecThemeTree.                  *)
(***************************************************************************)

\* the catalog the lister printed, as iconImages reads it
ListedImages == iconImages(lister).images

\* the (width, height) pairs of the catalog
ListedSizes == {<<ListedImages[i][WIDTH], ListedImages[i][HEIGHT]>> : i \in DOMAIN ListedImages}

\* the images of the catalog of the size
VariantsOf(size) ==
    {ListedImages[i] : i \in {j \in DOMAIN ListedImages :
                                 <<ListedImages[j][WIDTH], ListedImages[j][HEIGHT]>> = size}}

\* the runs of the single-image extractor
ExtractorRuns == {i \in DOMAIN runs : runs[i].tool = "icotool -x"}

\* the loop of lines 732-742 has run to its end
ThemeTreeBuilt == runs # <<>> /\ raised = "none"

\* C6: when the theme-tree loop of createLauncher has run on a listed catalog,
\* the single-image extractor has run once per distinct (width, height) pair
\* of the catalog, the theme tree holds one file per pair and no other,
\* <base>/<W>x<H>/apps/<icon name>.png, each extracted from a variant of that
\* size whose bit depth no variant of that size exceeds, and no extracted
\* file is left in the scratch directory.
C6_OnePngPerSize ==
    ThemeTreeBuilt =>
        /\ Cardinality(ExtractorRuns) = Cardinality(ListedSizes)
        /\ Cardinality(themeTree) = Cardinality(ListedSizes)
        /\ temporary = {}
        /\ \A size \in ListedSizes :
              \E f \in themeTree :
                 /\ f.name = iconPathBase
                                \o <<"/">> \o ToDigits(size[1]) \o <<"x">> \o ToDigits(size[2])
                                \o <<"/", "apps", "/", "wlcreator-", ".", "p", "n", "g">>
                 /\ f.data.kind = "png"
                 /\ f.data.images[1] \in VariantsOf(size)
                 /\ \A v \in VariantsOf(size) : v[BIT_DEPTH] <= f.data.images[1][BIT_DEPTH]
                 /\ \E i \in ExtractorRuns : runs[i].index = f.data.images[1][INDEX]

\* the loop has run on a catalog of two sizes, one of them with a variant of
\* lower bit depth listed before one of higher bit depth
C6_Witness ==
    /\ ThemeTreeBuilt
    /\ Cardinality(ListedSizes) = 2
    /\ \E i, j \in DOMAIN ListedImages :
          /\ i < j
          /\ ListedImages[i][WIDTH] = ListedImages[j][WIDTH]
          /\ ListedImages[i][HEIGHT] = ListedImages[j][HEIGHT]
          /\ ListedImages[i][BIT_DEPTH] < ListedImages[j][BIT_DEPTH]
    /\ Cardinality(themeTree) = 2

(***************************************************************************)
(* The external tools of the icon pipeline, under Spec.                    *)
(***************************************************************************)

\* the run is one of the lister, the single-image extractor or the resource
\* extractor that exited with a non-zero status (127 when the shell cannot
\* start wrestool)
FailedRun(i) ==
    /\ runs[i].tool \in {"icotool -l", "icotool -x", "wrestool"}
    /\ runs[i].exit # 0

\* C10: every run of the lister, the single-image extractor or the resource
\* extractor that exits with a non-zero status ends the handler with an
\* exception that reaches its caller, and no handler runs a tool twice on the
\* same file and image.
C10_ToolErrorsReachCaller ==
    /\ \A i \in DOMAIN runs : FailedRun(i) => raised # "none"
    /\ \A i, j \in DOMAIN runs :
          i < j => \/ runs[i].tool # runs[j].tool
                   \/ runs[i].file # runs[j].file
                   \/ runs[i].index # runs[j].index

(***************************************************************************)
(* The three classes of icon sources, under Spec.                          *)
(***************************************************************************)

\* the last four characters of the path, or all of them if there are fewer
LastFour(p) == SubSeq(p, IF Len(p) > 4 THEN Len(p) - 3 ELSE 1, Len(p))

\* the class of the path by its last four characters, whatever their case
IconClass(p) ==
    LET folded == [i \in DOMAIN LastFour(p) |->
                      IF LastFour(p)[i] \in {"E", "e"} THEN "e"
                      ELSE IF LastFour(p)[i] \in {"X", "x"} THEN "x"
                      ELSE IF LastFour(p)[i] \in {"D", "d"} THEN "d"
                      ELSE IF LastFour(p)[i] \in {"L", "l"} THEN "l"
                      ELSE IF LastFour(p)[i] \in {"I", "i"} THEN "i"
                      ELSE IF LastFour(p)[i] \in {"C", "c"} THEN "c"
                      ELSE IF LastFour(p)[i] \in {"O", "o"} THEN "o"
                      ELSE LastFour(p)[i]]
    IN  IF folded \in {<<".", "e", "x", "e">>, <<".", "d", "l", "l">>, <<".", "i", "c", "l">>}
        THEN "container"
        ELSE IF folded = <<".", "i", "c", "o">> THEN "ico"
        ELSE "other"

IcotoolRun(r) == r.tool \in {"icotool -l", "icotool -x"}

InScratch(path) == StartsWith(path, temporaryDir \o <<"/">>)

\* C11: a step that sets the icon path to an existing file runs the tools of
\* the path's class, decided by its last four characters whatever their
\* case: for a container wrestool on the path, then icotool on files of the
\* scratch directory only; for an .ico file icotool on the path itself and
\* no wrestool; for any other path no tool, no new or changed file, and the
\* path itself as the one item of the list.  A step that writes a launcher
\* for a path of the third class runs no tool, changes no file of the
\* scratch directory or the theme tree and names the path itself as the icon.
C11_ClassDecidesPipeline ==
    [][/\ (iconPath' # iconPath /\ iconPath'.pathValid) =>
            /\ IconClass(iconPath'.path) = "container" =>
                  /\ runs' # <<>>
                  /\ runs'[1].tool = "wrestool"
                  /\ runs'[1].file = iconPath'.path
                  /\ \A i \in 2..Len(runs') :
                        IcotoolRun(runs'[i]) /\ InScratch(runs'[i].file)
            /\ IconClass(iconPath'.path) = "ico" =>
                  /\ runs' # <<>>
                  /\ \A i \in DOMAIN runs' :
                        IcotoolRun(runs'[i]) /\ runs'[i].file = iconPath'.path
            /\ IconClass(iconPath'.path) = "other" =>
                  /\ runs' = <<>>
                  /\ temporary' \subseteq temporary
                  /\ themeTree' = themeTree
                  /\ iconWidget'.items =
                        <<[title |-> basename(iconPath'.path), png |-> iconPath'.path]>>
       /\ (launchers' # launchers /\ IconClass(iconPath.path) = "other") =>
            /\ runs' = <<>>
            /\ temporary' = temporary
            /\ themeTree' = themeTree
            /\ \A f \in launchers' \ launchers : f.data.Icon = iconPath.path
      ]_vars

\* a launcher was written for the .png file, and a container and an .ICO file
\* exist whose suffixes differ in case from the table of the code
C11_Witness ==
    /\ iconPath = [path |-> <<"/", "g", "/", "c", ".", "p", "n", "g">>, pathValid |-> TRUE]
    /\ runs = <<>>
    /\ \E f \in launchers : f.data.Icon = iconPath.path
    /\ IconClass(<<"/", "g", "/", "a", ".", "e", "x", "e">>) = "container"
    /\ IconClass(<<"/", "g", "/", "d", ".", "i", "c", "o">>) = "ico"
    /\ executable.path = <<"/", "g", "/", "a", ".", "e", "x", "e">>

\* C12: the scratch directory is cleared only at the start of
\* populateIconList, before any tool has run for the new source, and at
\* cleanup; createLauncher, debugLauncher and a refused edit never clear it
C12_ClearsOnlyInPopulateAndCleanup ==
    /\ handler \in {"none", "edited", "createLauncher", "debugLauncher"} => clears = <<>>
    /\ handler \in {"populateIconList", "cleanup"} => clears = <<0>>

\* createLauncher has built a theme tree with several tool runs and files
\* are left in the scratch directory
C12_Witness ==
    /\ handler = "createLauncher"
    /\ Len(runs) >= 2
    /\ themeTree # {}
    /\ temporary # {}

\* the runs of the single-image extractor that ended well
ExtractedRuns == {runs[i] : i \in {j \in ExtractorRuns : runs[j].exit = 0}}

\* the names of the files of the scratch directory
ScratchNames == {f.name : f \in temporary}

\* C13: the file iconExtract names depends on its arguments only: however
\* often and in whatever order images are extracted, the scratch directory
\* holds at most one file per extracted (source, index) pair, and for each
\* source as many files, at least, as indexes were extracted from it
C13_OneNamePerVariant ==
    /\ Cardinality(ScratchNames) <= Cardinality({<<r.file, r.index>> : r \in ExtractedRuns})
    /\ \A source \in ExtractSources :
          Cardinality({r.index : r \in {e \in ExtractedRuns : e.file = source.name}})
              <= Cardinality(ScratchNames)

\* an image was extracted twice and another image of the same file once
C13_Witness ==
    /\ Len(runs) = 3
    /\ Cardinality(ExtractedRuns) = 2
    /\ \A r \in ExtractedRuns : r.file = <<"/", "g", "/", "b", ".", "I", "C", "O">>
    /\ {r.index : r \in ExtractedRuns} = {1, 11}
    /\ Cardinality(ScratchNames) = 2

\* the position of the first element c of the sequence, 0 if there is none
FirstIndexOf(p, c) ==
    IF \E i \in DOMAIN p : p[i] = c THEN CHOOSE i \in DOMAIN p : p[i] = c /\ \A j \in 1..(i - 1) : p[j] # c
    ELSE 0

\* the normalized part of the name of a file of the theme tree: what stands
\* between "wlcreator-" and ".png"
NormalizedPart(p) == SubSeq(p, FirstIndexOf(p, "wlcreator-") + 1, Len(p) - 4)

\* the characters the normalized part may hold
IconNameAlphabet ==
    {"a", "b", "c", "d", "e", "f", "g", "h", "i", "l", "n", "o", "p", "x", "z",
     "0", "1", "2", "3", "4", "5", "6", "7", "8", "9", "_", ".", "-"}

\* the one output character the claim gives a character of the name: none
\* for a combining mark, the lower-case letter, the digit, the underscore
\* and the period themselves, a hyphen for anything else
ClaimedCharacter(c) ==
    IF c = "combining-acute" THEN <<>>
    ELSE IF c = "G" THEN <<"g">>
    ELSE IF c = "e-acute" THEN <<"e">>
    ELSE IF c \in {"e", "1", "_", "."} THEN <<c>>
    ELSE <<"-">>

\* what a character of the name becomes in fact: as claimed, but for the
\* ligature, which is its two letters
NormalizedCharacter(c) == IF c = "fi-ligature" THEN <<"f", "i">> ELSE ClaimedCharacter(c)

\* the part of the name after its last slash
AfterLastSlash(t) ==
    IF \E i \in DOMAIN t : t[i] = "/"
    THEN SubSeq(t, (CHOOSE i \in DOMAIN t : t[i] = "/" /\ \A j \in (i + 1)..Len(t) : t[j] # "/") + 1,
                Len(t))
    ELSE t

\* C14 as stated: the normalized part of the icon's name has, for every
\* character of the launcher name that is no combining mark, one character:
\* the lower-case letter, the digit, the underscore or the period itself,
\* or a hyphen; and it holds only a-z, 0-9, "_", "." and "-"
C14_OneCharacterPerNameCharacter ==
    \A f \in themeTree :
        /\ NormalizedPart(f.name) = Flatten([i \in DOMAIN name |-> ClaimedCharacter(name[i])])
        /\ \A i \in DOMAIN NormalizedPart(f.name) : NormalizedPart(f.name)[i] \in IconNameAlphabet

\* C14, amended: the normalized part is made from the part of the launcher
\* name after its last slash; every character of it that is no combining
\* mark gives the lower-case letter, the digit, the underscore or the
\* period itself, or a hyphen, an accented letter gives its letter and a
\* ligature gives its letters; the part holds only a-z, 0-9, "_", ".", "-"
C14_NormalizedAfterLastSlash ==
    \A f \in themeTree :
        /\ NormalizedPart(f.name) =
               Flatten([i \in DOMAIN AfterLastSlash(name) |->
                           NormalizedCharacter(AfterLastSlash(name)[i])])
        /\ \A i \in DOMAIN NormalizedPart(f.name) : NormalizedPart(f.name)[i] \in IconNameAlphabet

\* the theme tree holds the icon of a launcher named with a capital letter,
\* a space and a period
C14_Witness ==
    /\ name = <<"G", SP, ".">>
    /\ \E f \in themeTree : NormalizedPart(f.name) = <<"g", "-", ".">>

\* the position of the last semicolon of the script, 0 if there is none
LastSemicolon(p) == LastIndexOf(p, ";")

\* C15: when the check box "Compiz Legacy Fullscreen Support" is checked,
\* the fragment the shell runs before the application (up to the first
\* semicolon) sets legacy_fullscreen to true and the fragment it runs after
\* the application (from the last semicolon) sets it to false
C15_LegacyFullscreenOnThenOff ==
    (command.built /\ legacyFS) =>
        LET line == command.line
            arg == SubSeq(line, 5, Len(line))
            script == shReadDQ(SubSeq(arg, 2, Len(arg) - 1))
            before == SubSeq(script, 1, FirstIndexOf(script, ";") - 1)
            after == SubSeq(script, LastSemicolon(script) + 1, Len(script))
            Sets(fragment, value) ==
                /\ \E k \in DOMAIN fragment : fragment[k] = "gconftool"
                /\ \E k \in DOMAIN fragment :
                      fragment[k] = "/apps/compiz-1/plugins/workarounds/screen0/options/legacy_fullscreen"
                /\ \E k \in DOMAIN fragment : fragment[k] = value
                /\ \A k \in DOMAIN fragment : fragment[k] \in {"true", "false"} => fragment[k] = value
        IN  /\ Sets(before, "true")
            /\ Sets(after, "false")

\* C16: clearTemporary leaves no file in the scratch directory, whatever the
\* names of its files are, so that when the window has been closed cleanup
\* has emptied the directory and its os.rmdir has raised nothing
C16_CleanupEmptiesScratch ==
    closed => (temporary = {} /\ raised = "none")

\* createLauncher has taken the selected item of the list as the icon source:
\* its first tool run lists an .ico file of the scratch directory
TookListItem ==
    /\ handler = "createLauncher"
    /\ runs # <<>>
    /\ runs[1].tool = "icotool -l"
    /\ InScratch(runs[1].file)

\* C17: whenever createLauncher takes the selected item of the list as the
\* icon source for an icon path of the container class, the list and the
\* .ico files of the scratch directory were made by populateIconList from
\* the current icon path; populateIconList runs on existing paths only, so
\* the current icon path names an existing file
C17_ListMadeFromCurrentIconPath ==
    (TookListItem /\ IconClass(iconPath.path) = "container") =>
        (iconPath.pathValid /\ pathExists(iconPath.path))

\* the .png files of the scratch directory
ScratchPngs(dir) == {f \in dir : EndsWith(f.name, <<".", "p", "n", "g">>)}

\* C18 as stated: a step of createLauncher leaves the files of the scratch
\* directory as they were, whatever the class of the icon path
C18_ScratchUnchanged ==
    [][handler' = "createLauncher" => temporary' = temporary]_vars

\* C18, amended: a step of createLauncher leaves the files of the scratch
\* directory as they were when the icon path is of the container class (or
\* of neither class); when it is an .ico file the step adds no file, removes
\* .png files only, and once the theme tree is built without an exception
\* the preview .png of populateIconList is gone from the scratch directory
C18_ScratchKeptButPreviewOfIco ==
    [][handler' = "createLauncher" =>
          /\ IconClass(iconPath.path) # "ico" => temporary' = temporary
          /\ IconClass(iconPath.path) = "ico" =>
                /\ temporary' \subseteq temporary
                /\ temporary \ temporary' \subseteq ScratchPngs(temporary)
                /\ (raised' = "none" /\ runs' # <<>>) => ScratchPngs(temporary') = {}
      ]_vars

\* createLauncher has built the theme tree of the .ICO file and written the
\* launcher, and the preview has left the scratch directory
C18_Witness ==
    /\ handler = "createLauncher"
    /\ iconPath.path = <<"/", "g", "/", "b", ".", "I", "C", "O">>
    /\ raised = "none"
    /\ themeTree # {}
    /\ launchers # {}
    /\ iconWidget.items # <<>>
    /\ ~hasFile(temporary, basename(iconWidget.items[1].png))

\* C19: a step of createLauncher writes no launcher file, in the launcher
\* directory or under ~/.local/share/applications/wlcreator/, when the exe
\* path is invalid, when the application path is invalid, or when the icon
\* path is of the container class and no item of the list is selected
C19_NoLauncherWhenRefused ==
    [][(/\ handler' = "createLauncher"
        /\ \/ ~executable.pathValid
           \/ ~application.pathValid
           \/ IconClass(iconPath.path) = "container" /\ iconWidget.selected = 0)
       => (launchers' = launchers /\ themeTree' = themeTree)]_vars

\* populateIconList has found no icon in the container, createLauncher has
\* refused for want of a selection and no launcher exists
C19_Witness ==
    /\ handler = "createLauncher"
    /\ executable.pathValid
    /\ application.pathValid
    /\ IconClass(iconPath.path) = "container"
    /\ iconWidget.items = <<>>
    /\ status.message = "You need to select an icon first."
    /\ launchers = {}

\* the characters that, outside quotes, do not stand for themselves
shUnquotedSpecial ==
    {">", "<", "~", "|", "&", ";", "$", "*", "?", "#", "(", ")", BT, "=", NL}

\* the words a POSIX shell reads from the characters s by its quoting rules:
\* single quotes are literal; inside double quotes a backslash escapes only
\* a double quote, dollar sign, backtick or backslash; outside quotes a
\* backslash escapes the next character, blanks part the words and every
\* other character stands for itself.  mode is "plain", "sq" or "dq", cur is
\* the word read so far and open tells that a word has begun.  ok is FALSE
\* when a quote is left open or a character starts an expansion or an
\* operator.
RECURSIVE shScan(_, _, _, _)
shScan(s, mode, cur, open) ==
    IF s = <<>>
    THEN [ok |-> mode = "plain", words |-> IF open THEN <<cur>> ELSE <<>>]
    ELSE LET c == s[1]
             fail == [ok |-> FALSE, words |-> <<>>]
         IN  IF mode = "sq"
             THEN IF c = SQ THEN shScan(Tail(s), "plain", cur, TRUE)
                  ELSE shScan(Tail(s), "sq", Append(cur, c), TRUE)
             ELSE IF mode = "dq"
             THEN IF c = DQ THEN shScan(Tail(s), "plain", cur, TRUE)
                  ELSE IF c = BS /\ Len(s) >= 2 /\ s[2] \in {DQ, "$", BT, BS}
                  THEN shScan(SubSeq(s, 3, Len(s)), "dq", Append(cur, s[2]), TRUE)
                  ELSE IF c \in {"$", BT} THEN fail
                  ELSE shScan(Tail(s), "dq", Append(cur, c), TRUE)
             ELSE IF c = SQ THEN shScan(Tail(s), "sq", cur, TRUE)
             ELSE IF c = DQ THEN shScan(Tail(s), "dq", cur, TRUE)
             ELSE IF c = BS
             THEN IF Len(s) >= 2
                  THEN shScan(SubSeq(s, 3, Len(s)), "plain", Append(cur, s[2]), TRUE)
                  ELSE fail
             ELSE IF c \in {SP, TAB}
             THEN LET rest == shScan(Tail(s), "plain", <<>>, FALSE)
                  IN  [ok |-> rest.ok,
                       words |-> (IF open THEN <<cur>> ELSE <<>>) \o rest.words]
             ELSE IF c \in shUnquotedSpecial THEN fail
             ELSE shScan(Tail(s), "plain", Append(cur, c), TRUE)

\* the shell reads the characters as the one word
shReadsAsOneWord(s, word) == shScan(s, "plain", <<>>, FALSE) = [ok |-> TRUE, words |-> <<word>>]

TextHasTabOrNewline == \E i \in DOMAIN text : text[i] \in {TAB, NL}

\* C20 as stated: for every text without tab or newline and both values of
\* allowSingleQuote the shell reads escape(text, allowSingleQuote) as exactly
\* one word, the text; and when that result is escaped again as a whole with
\* allowSingleQuote = False, the shell reads the outer result as one word,
\* the inner result
C20_ShellReadsTextBack ==
    (escaped # <<>> /\ ~TextHasTabOrNewline) =>
        /\ shReadsAsOneWord(escaped[1], text)
        /\ Len(escaped) = 2 => shReadsAsOneWord(escaped[2], escaped[1])

\* C20, amended: the same for every text without tab or newline that is not
\* empty; the empty text is returned as it is, and the shell reads no word
\* from it
C20_ShellReadsNonEmptyTextBack ==
    (escaped # <<>> /\ ~TextHasTabOrNewline) =>
        /\ text # <<>> =>
              /\ shReadsAsOneWord(escaped[1], text)
              /\ Len(escaped) = 2 => shReadsAsOneWord(escaped[2], escaped[1])
        /\ text = <<>> =>
              /\ escaped[1] = <<>>
              /\ shScan(escaped[1], "plain", <<>>, FALSE) = [ok |-> TRUE, words |-> <<>>]

\* a text with a dollar sign and a space was wrapped in single quotes and
\* that result was escaped again for sh -c
C20_Witness ==
    /\ text = <<"$", SP>>
    /\ allowSingleQuote
    /\ escaped = << <<SQ, "$", SP, SQ>>, <<DQ, SQ, BS, "$", SP, SQ, DQ>> >>

(***************************************************************************)
(* Claims about bash, checked under SpecBash.                              *)
(***************************************************************************)

\* the process of the call ran to its end and its output was read
ProcessRan == shell.process.started /\ shell.process.read

\* C21: bash(command) returns a (code, output) pair for every outcome: when
\* the process runs it returns the exit code of the process and its decoded
\* combined output, and when starting the process or reading its output
\* raises, it returns code 127 instead of raising.
C21_BashReturnsPairForEveryOutcome ==
    shell.called =>
        /\ shell.bash.raised = "none"
        /\ ProcessRan =>
              /\ shell.bash.code = shell.process.exit
              /\ shell.bash.type = "str"
              /\ utf8Valid(shell.process.out)
              /\ shell.bash.output = utf8Decode(shell.process.out)
        /\ ~ProcessRan => shell.bash.code = 127

====
